---------------------------- MODULE Spec2Model ----------------------------
(* Model of micro.py's resource caches (build/lib/micro/resources.py):    *)
(* AbstractResourceManager.get / dispose, the five kind-specific managers *)
(* and ResourceManager, over a file system of two resource directories;   *)
(* of its input tracker (build/lib/micro/input.py) driven by the per-frame *)
(* update of micro/__init__.py; and of TileMap addressing.                *)
(* Each subsystem has its own specification: Spec (resource caches),      *)
(* InputSpec (input tracker), TileMapSpec (tile-map addressing),          *)
(* TileLoadSpec (the tile-map loader), ImageSpec (tile geometry and       *)
(* animations) and ApiSpec (the library object of micro/__init__.py).     *)
(* Strings are sequences of one-character strings, so that strip, lower   *)
(* and the regular expressions of the code are computed, not assumed.     *)
EXTENDS Integers, Sequences, FiniteSets, TLC

VARIABLES
    dirs,        \* root |-> set of file names in that directory (os.listdir)
    cache,       \* manager |-> (key |-> resource): AbstractResourceManager.cache
    nextHandle,  \* next resource the external loaders hand out
    loaded,      \* resource |-> the loader call that produced it
    freed,       \* resource |-> number of free_resource calls on it
    given,       \* manager |-> the (name, discriminators, resource) its get
                 \* calls returned since its last dispose
    last,        \* the last call: its arguments (the name trimmed and
                 \* lower-cased), its outcome and what it did
    \* -- the input tracker (InputHandler) and its environment
    keys,             \* InputHandler.keys: key name |-> hold counter
    joysticks,        \* InputHandler.joysticks: name |-> Joystick object
    sticks,           \* the Joystick objects: [buttons, axis, daxis, closed]
    default_joystick, \* InputHandler.default_joystick (a Joystick or None)
    mouse,            \* InputHandler.mouse
    mouse_prev,       \* InputHandler.mouse_prev
    mouse_rel,        \* InputHandler.mouse_rel
    mouse_buttons,    \* InputHandler.mouse_buttons
    devices,          \* the connected joysticks, in enumeration order
    window,           \* <<w, h>> of SDL_GetWindowSize
    focus,            \* the device the player uses in this run
    events,           \* SDL's queue of pending key notifications
    down,             \* the keys that are physically held
    frame,            \* update calls made so far
    heldFrames,       \* key name |-> frames held, by the press/release
                      \* notifications processed (0 = idle)
    inputLast,        \* the last update call and what it did
    \* -- tile-map addressing
    tile_map,         \* a TileMap object
    tileLast,         \* the last TileMap.get call, or the load before it
    \* -- tile geometry and animations
    imageObj,         \* an Image object as ImageManager.load_resource builds it
    imageLast,        \* the last Image.get_source_rect call
    \* -- the library object
    api,              \* the MicroPyApi object and the SDL objects it holds
    apiLast           \* the last call of a public operation

resourceVars == <<dirs, cache, nextHandle, loaded, freed, given, last>>

inputVars == <<keys, joysticks, sticks, default_joystick, mouse, mouse_prev,
               mouse_rel, mouse_buttons, devices, window, focus, events, down,
               frame, heldFrames, inputLast>>

tileVars == <<tile_map, tileLast>>

imageVars == <<imageObj, imageLast>>

apiVars == <<api, apiLast>>

vars == <<resourceVars, inputVars, tileVars, imageVars, apiVars>>

-----------------------------------------------------------------------------
(* Bounds *)

\* resources the external loaders hand out in one run
MaxLoads == 2

-----------------------------------------------------------------------------
(* Strings *)

UPPER == <<"A","B","C","D","E","F","G","H","I","J","K","L","M",
           "N","O","P","Q","R","S","T","U","V","W","X","Y","Z">>

LOWER == <<"a","b","c","d","e","f","g","h","i","j","k","l","m",
           "n","o","p","q","r","s","t","u","v","w","x","y","z">>

DIGITS == {"0","1","2","3","4","5","6","7","8","9"}

WHITESPACE == {" ", "\t", "\n"}

Letters == {LOWER[i] : i \in 1..26}

UpperLetters == {UPPER[i] : i \in 1..26}

\* upper-case letter |-> its lower-case letter
LowerOf == [c \in UpperLetters |-> LOWER[CHOOSE i \in 1..26 : UPPER[i] = c]]

\* str.lower() on one character
LowerChar(c) == IF c \in UpperLetters THEN LowerOf[c] ELSE c

\* str.lower()
Lower(s) == [i \in 1..Len(s) |-> LowerChar(s[i])]

RECURSIVE LStrip(_)
LStrip(s) == IF s # <<>> /\ Head(s) \in WHITESPACE THEN LStrip(Tail(s)) ELSE s

RECURSIVE RStrip(_)
RStrip(s) ==
    IF s # <<>> /\ s[Len(s)] \in WHITESPACE
    THEN RStrip(SubSeq(s, 1, Len(s) - 1))
    ELSE s

\* str.strip()
Strip(s) == RStrip(LStrip(s))

\* re.match(r'[a-z][0-9a-z]*', key): a match at the start of key, which
\* need not reach its end
MatchNamePrefix(key) == key # <<>> /\ key[1] \in Letters

\* the same pattern anchored at the end of key: what the documentation
\* calls a valid resource name
MatchNameFull(key) ==
    /\ key # <<>>
    /\ key[1] \in Letters
    /\ \A i \in 2..Len(key) : key[i] \in Letters \cup DIGITS

\* line 170: re.match(r'[a-z][0-9a-z]*', key)
ValidName(key) == MatchNamePrefix(key)


-----------------------------------------------------------------------------
(* Resource kinds and their file types *)

FONT_EXTS == << <<"f","o","n">>, <<"t","t","f">> >>

AUDIO_EXTS == << <<"a","i","f">>, <<"a","i","f","f">>, <<"f","l","a","c">>,
                 <<"m","p","3">>, <<"o","g","g">>, <<"w","a","v">> >>

IMAGE_EXTS == << <<"b","m","p">>, <<"g","i","f">>, <<"j","p","g">>,
                 <<"j","p","e","g">>, <<"p","n","g">>, <<"t","g","a">>,
                 <<"t","i","f">>, <<"t","i","f","f">> >>

INI_EXTS == << <<"i","n","i">> >>

TXT_EXTS == << <<"t","x","t">> >>

\* the '.white' entry of INTERNAL_IMAGES
INTERNAL_IMAGES == { <<".","w","h","i","t","e">> }

\* the five caches of ResourceManager, in the order dispose walks them
Managers == <<"fonts", "images", "sounds", "music", "tilemaps">>

ManagerSet == {Managers[i] : i \in 1..Len(Managers)}

\* self.file_types of each manager
file_types(m) ==
    CASE m = "fonts"    -> FONT_EXTS
      [] m = "images"   -> IMAGE_EXTS
      [] m = "sounds"   -> AUDIO_EXTS
      [] m = "music"    -> AUDIO_EXTS
      [] m = "tilemaps" -> TXT_EXTS

\* self.meta_file_types of each manager (default [])
meta_file_types(m) == IF m = "images" THEN INI_EXTS ELSE <<>>

\* api.resources_dirs with the built-in directory first
resources_dirs_builtin_first == <<"builtin", "app">>

\* api.resources_dirs: [resources_dir, <package>/builtin]
resources_dirs == <<"app", "builtin">>

-----------------------------------------------------------------------------
(* find_resource *)

NoFile == <<>>

\* one pattern character of name against one candidate character, under
\* re.I; '.' is the only regular-expression operator the names used here
\* contain
AtomMatch(p, c) == IF p = "." THEN c # "\n" ELSE LowerChar(p) = LowerChar(c)

\* candidate[from + 1 ..] starts with the pattern characters pat
StartsWith(pat, candidate, from) ==
    /\ Len(candidate) >= from + Len(pat)
    /\ \A i \in 1..Len(pat) : AtomMatch(pat[i], candidate[from + i])

\* rule.match(candidate) with an escaped dot and an end anchor: candidate
\* is exactly name, a dot and one of types
RuleMatchExact(name, types, candidate) ==
    /\ Len(candidate) > Len(name)
    /\ \A i \in 1..Len(name) : LowerChar(name[i]) = LowerChar(candidate[i])
    /\ candidate[Len(name) + 1] = "."
    /\ \E t \in 1..Len(types) :
          /\ Len(candidate) = Len(name) + 1 + Len(types[t])
          /\ StartsWith(types[t], candidate, Len(name) + 1)

\* rule.match(candidate) for rule = '%s.(%s)' % (name, '|'.join(types)),
\* re.I: matches at the start of candidate, the dot matches any character,
\* and whatever follows the extension is ignored
RuleMatch(name, types, candidate) ==
    /\ StartsWith(name, candidate, 0)
    /\ Len(candidate) > Len(name)
    /\ candidate[Len(name) + 1] # "\n"
    /\ \E t \in 1..Len(types) : StartsWith(types[t], candidate, Len(name) + 1)

\* the candidates of one directory the rule matches
Matches(name, types, root) ==
    {c \in dirs[root] : RuleMatch(name, types, c)}

RECURSIVE find_resource(_, _, _)
\* find_resource(name, types, roots): the values the call can return.
\* os.listdir yields a directory's entries in arbitrary order, so within the
\* first root that holds a match any of its matches can be the one returned;
\* with no match in any root the function falls off its end (None).
find_resource(name, types, roots) ==
    IF roots = <<>>
    THEN {NoFile}
    ELSE LET found == Matches(name, types, Head(roots))
         IN  IF found # {}
             THEN {<<Head(roots), c>> : c \in found}
             ELSE find_resource(name, types, Tail(roots))

-----------------------------------------------------------------------------
(* The caches: AbstractResourceManager *)

\* Python's None, and the NULL pointer the SDL loaders return on failure
\* (both are false in "if resource:"); resources are numbered from 1
None == 0

EmptyCache == [k \in {} |-> None]

\* what a call works on: the five caches and the external loaders' side
StateOf(c, n, l) == [cache |-> c, nextHandle |-> n, loaded |-> l]

\* a step of a call, kept in its trace
Event(ev, m, name, more, file, meta, resource) ==
    [ev |-> ev, mgr |-> m, name |-> name, more |-> more,
     file |-> file, meta |-> meta, resource |-> resource]

\* a call that returns resource
Returned(s, resource, trace) ==
    [exc |-> "none", resource |-> resource, s |-> s, trace |-> trace]

\* a call that raises exc
Raised(s, exc, trace) ==
    [exc |-> exc, resource |-> None, s |-> s, trace |-> trace]

\* FontManager.load_resource: TTF_OpenFont(filename.encode(), key[1]);
\* the other loaders take no argument from the key
ptsize(m, key) == IF m = "fonts" THEN key[2] ELSE None

\* the external library hands out a resource not handed out before
NewResource(s, m, key, file, meta) ==
    [s EXCEPT !.nextHandle = @ + 1,
              !.loaded = (s.nextHandle :>
                            [mgr |-> m, key |-> key, file |-> file, meta |-> meta,
                             ptsize |-> ptsize(m, key)]) @@ @]

CanLoad(s) == s.nextHandle <= MaxLoads

\* an external loader that returns a new resource or NULL
\* (TTF_OpenFont, Mix_LoadMUS, Mix_LoadWAV)
LoadOrNull(s, m, key, file, meta) ==
    {Returned(s, None, <<>>)} \cup
    (IF CanLoad(s)
     THEN {Returned(NewResource(s, m, key, file, meta), s.nextHandle, <<>>)}
     ELSE {})

\* a loader that returns a new object or raises IOError
LoadOrRaise(s, m, key, file, meta, trace) ==
    {Raised(s, "IOError", trace)} \cup
    (IF CanLoad(s)
     THEN {Returned(NewResource(s, m, key, file, meta), s.nextHandle, trace)}
     ELSE {})

\* a key whose discriminators are all blanked
CacheKeyBlank(key, more_key) == <<key>> \o [i \in 1..Len(more_key) |-> None]

\* line 174: key = (key,) + more_key
CacheKey(key, more_key) == <<key>> \o more_key

\* a lookup that never finds the key
CacheMiss(s, m, key) == FALSE

\* line 176: key in self.cache
CacheHas(s, m, key) == key \in DOMAIN s.cache[m]

\* a store that keeps only the newest entry
CachePutAlone(s, m, key, resource) ==
    [s EXCEPT !.cache[m] = (key :> resource)]

\* lines 183, 197: self.cache[key] = resource
CachePut(s, m, key, resource) ==
    [s EXCEPT !.cache[m] = (key :> resource) @@ @]

\* a failure path that remembers the failure in the cache
LoadFailedCached(s, m, key, trace) ==
    Raised(CachePut(s, m, key, None), "AttributeError", trace)

\* lines 186, 200: raise IOError('...' % (self.reosurce_type, name)).
\* The attribute is misspelt (the constructor sets resource_type), so
\* evaluating the message raises AttributeError and no IOError is built.
LoadFailed(s, m, key, trace) == Raised(s, "AttributeError", trace)

\* the tileset name the tile-map files carry in their tiles: directive
TilesetNames == { <<"a">> }

\* load_internal_resource(key)
load_internal_resource(s, m, key) ==
    IF m = "images"
    THEN IF key[1] \in INTERNAL_IMAGES
         THEN LoadOrRaise(s, m, key, NoFile, NoFile, <<>>)
         ELSE {Raised(s, "KeyError", <<>>)}      \* INTERNAL_IMAGES[key[0]]
    ELSE {Returned(s, None, <<>>)}               \* the base class: pass

RECURSIVE get(_, _, _, _, _)
RECURSIVE load_resource(_, _, _, _, _)

\* load_resource(key, filename, meta_filename) of each manager
load_resource(s, m, key, filename, meta_filename) ==
    CASE m = "fonts" ->
           IF Len(key) < 2
           THEN {Raised(s, "IndexError", <<>>)}  \* key[1]
           ELSE LoadOrNull(s, m, key, filename, meta_filename)
      [] m = "images" ->
           LoadOrRaise(s, m, key, filename, meta_filename, <<>>)
      [] m \in {"sounds", "music"} ->
           LoadOrNull(s, m, key, filename, meta_filename)
      [] m = "tilemaps" ->
           \* no tiles: directive on the first content line, or the file
           \* cannot be read
           {Raised(s, "IOError", <<>>)} \cup
           UNION {
             UNION {
               IF r.exc # "none"
               THEN {r}                          \* get_image raised
               ELSE LoadOrRaise(r.s, m, key, filename, meta_filename, r.trace)
               : r \in get(s, "images", tileset, <<>>, FALSE) }
             : tileset \in TilesetNames }

\* lines 182-186, 196-200: if resource: cache and return, else raise
Finish(m, name, more_key, key, r, before) ==
    IF r.exc # "none"
    THEN [r EXCEPT !.trace = before \o @]
    ELSE IF r.resource # None
    THEN Returned(CachePut(r.s, m, key, r.resource), r.resource,
                  before \o r.trace \o
                  <<Event("return", m, name, more_key, NoFile, NoFile, r.resource)>>)
    ELSE LoadFailed(r.s, m, key,
                    before \o r.trace \o
                    <<Event("no_resource", m, name, more_key, NoFile, NoFile, None)>>)

\* AbstractResourceManager.get(name, *more_key, internal): the outcomes the
\* call can have
get(s, m, name0, more_key, internal) ==
    LET name == Strip(name0)
        id   == Lower(name)
        key  == CacheKey(id, more_key)
    IN  IF ~internal /\ ~ValidName(id)
        THEN {Raised(s, "ValueError", <<>>)}
        ELSE IF CacheHas(s, m, key)
        THEN {Returned(s, s.cache[m][key],
                       <<Event("return", m, name0, more_key, NoFile, NoFile,
                               s.cache[m][key])>>)}
        ELSE IF internal
        THEN {Finish(m, name0, more_key, key, r,
                     <<Event("load_internal", m, id, more_key, NoFile, NoFile, None)>>)
              : r \in load_internal_resource(s, m, key)}
        ELSE UNION { UNION {
               IF filename # NoFile
               THEN {Finish(m, name0, more_key, key, r,
                            <<Event("search", m, id, more_key, filename,
                                    meta_filename, None),
                              Event("load", m, id, more_key, filename,
                                    meta_filename, None)>>)
                     : r \in load_resource(s, m, key, filename, meta_filename)}
               ELSE {Raised(s, "KeyError",
                            <<Event("search", m, id, more_key, filename,
                                    meta_filename, None)>>)}
               : meta_filename \in
                   IF meta_file_types(m) # <<>>
                   THEN find_resource(id, meta_file_types(m), resources_dirs)
                   ELSE {NoFile} }
             : filename \in find_resource(id, file_types(m), resources_dirs) }

\* a dispose that clears the cache and releases nothing
dispose_leak(c, f, m) ==
    [cache |-> [c EXCEPT ![m] = EmptyCache], freed |-> f]

\* a dispose that releases the entries and keeps them in the cache
dispose_keep(c, f, m) ==
    [cache |-> c,
     freed |-> [h \in DOMAIN f |->
                  f[h] + Cardinality({k \in DOMAIN c[m] : c[m][k] = h})]]

\* AbstractResourceManager.dispose: free_resource on every entry of
\* self.cache.items(), then self.cache = {}
dispose(c, f, m) ==
    [cache |-> [c EXCEPT ![m] = EmptyCache],
     freed |-> [h \in DOMAIN f |->
                  f[h] + Cardinality({k \in DOMAIN c[m] : c[m][k] = h})]]

RECURSIVE dispose_all(_, _, _)
\* ResourceManager.dispose: the five managers' dispose, one after the other
dispose_all(c, f, ms) ==
    IF ms = <<>>
    THEN [cache |-> c, freed |-> f]
    ELSE LET d == dispose(c, f, Head(ms))
         IN  dispose_all(d.cache, d.freed, Tail(ms))

-----------------------------------------------------------------------------
(* Inputs *)

\* the names the callers pass: a plain one, one that needs trimming and
\* lower-casing, one that is well-formed only up to its third character, and
\* an internal one
Names == { <<"a">>, <<" ","A"," ">>, <<"a","-","b">>,
           <<".","w","h","i","t","e">> }

\* the font sizes the callers pass
Sizes == {12, 24}

\* the files the application's directory can hold: an image, an editor's
\* backup copy of one, a font, a sound and a tile map
AppFileNames == { <<"A",".","p","n","g">>,
                  <<"a",".","p","n","g","~">>,
                  <<"a",".","t","t","f">>,
                  <<"a",".","w","a","v">>,
                  <<"a",".","t","x","t">> }

\* the built-in directory may hold an image of the same name
BuiltinImages == { <<"a",".","b","m","p">> }

-----------------------------------------------------------------------------
(* The state machine *)

\* a name as the claims compare names: trimmed and lower-cased
Norm(name) == Lower(Strip(name))

\* no input tracker and no tile map exist in a run of the resource caches
InputAbsent ==
    /\ keys = <<>> /\ joysticks = <<>> /\ sticks = <<>>
    /\ default_joystick = 0
    /\ mouse = <<0, 0>> /\ mouse_prev = <<>> /\ mouse_rel = <<0, 0>>
    /\ mouse_buttons = <<>>
    /\ devices = <<>> /\ window = <<0, 0>> /\ focus = "none"
    /\ events = <<>> /\ down = {} /\ frame = 0 /\ heldFrames = <<>>
    /\ inputLast = <<>>

TileMapAbsent == tile_map = <<>> /\ tileLast = <<>>

\* no image and no library object exist in a run of another subsystem
ImageAbsent == imageObj = <<>> /\ imageLast = <<>>

ApiAbsent == api = <<>> /\ apiLast = <<>>

\* a trace as it is kept: names trimmed and lower-cased
Kept(trace) == [i \in 1..Len(trace) |-> [trace[i] EXCEPT !.name = Norm(@)]]

\* the "return" events of a trace: every get call, nested ones included,
\* that returned a resource
Returns(trace) ==
    {[mgr |-> trace[i].mgr, name |-> trace[i].name, more |-> trace[i].more,
      resource |-> trace[i].resource]
     : i \in {j \in 1..Len(trace) : trace[j].ev = "return"}}

Init ==
    /\ \E file \in AppFileNames, builtin \in SUBSET BuiltinImages :
         \E app \in SUBSET {file} :
           /\ dirs = [root \in {"app", "builtin"} |->
                       IF root = "app" THEN app ELSE builtin]
    /\ cache = [m \in ManagerSet |-> EmptyCache]
    /\ nextHandle = 1
    /\ loaded = [h \in {} |-> None]
    /\ freed = [h \in {} |-> 0]
    /\ given = [m \in ManagerSet |-> {}]
    /\ last = [op |-> "init", mgr |-> "", mgrs |-> {}, name |-> <<>>, more |-> <<>>,
               internal |-> FALSE, exc |-> "none", resource |-> None,
               trace |-> <<>>]
    /\ InputAbsent
    /\ TileMapAbsent
    /\ ImageAbsent
    /\ ApiAbsent

\* the caller sees outcome r of manager m's get
Call(m, name, more_key, internal, r) ==
    /\ cache' = r.s.cache
    /\ nextHandle' = r.s.nextHandle
    /\ loaded' = r.s.loaded
    /\ freed' = [h \in DOMAIN r.s.loaded |->
                   IF h \in DOMAIN freed THEN freed[h] ELSE 0]
    /\ given' = [g \in ManagerSet |->
                   given[g] \cup
                   {[name |-> Norm(e.name), more |-> e.more, resource |-> e.resource]
                    : e \in {x \in Returns(r.trace) : x.mgr = g}}]
    /\ last' = [op |-> "get", mgr |-> m, mgrs |-> {m}, name |-> Norm(name),
                more |-> more_key, internal |-> internal, exc |-> r.exc,
                resource |-> r.resource, trace |-> Kept(r.trace)]
    /\ UNCHANGED <<dirs, inputVars, tileVars, imageVars,
                   apiVars>>

Here == StateOf(cache, nextHandle, loaded)

\* ResourceManager.get_font(font, size)
GetFont(font, size) ==
    \E r \in get(Here, "fonts", font, <<size>>, FALSE) :
        Call("fonts", font, <<size>>, FALSE, r)

\* ResourceManager.get_image(image, internal)
GetImage(image, internal) ==
    \E r \in get(Here, "images", image, <<>>, internal) :
        Call("images", image, <<>>, internal, r)

\* ResourceManager.get_sound(sound)
GetSound(sound) ==
    \E r \in get(Here, "sounds", sound, <<>>, FALSE) :
        Call("sounds", sound, <<>>, FALSE, r)

\* ResourceManager.get_music(music)
GetMusic(music) ==
    \E r \in get(Here, "music", music, <<>>, FALSE) :
        Call("music", music, <<>>, FALSE, r)

\* ResourceManager.get_tilemap(tilemap)
GetTilemap(tilemap) ==
    \E r \in get(Here, "tilemaps", tilemap, <<>>, FALSE) :
        Call("tilemaps", tilemap, <<>>, FALSE, r)

\* a manager's get called directly with internal=True (only get_image
\* passes the flag on)
GetInternal(m, name) ==
    \E r \in get(Here, m, name, <<>>, TRUE) :
        Call(m, name, <<>>, TRUE, r)

Disposed(d, ms) ==
    /\ cache' = d.cache
    /\ freed' = d.freed
    /\ given' = [g \in ManagerSet |-> IF g \in ms THEN {} ELSE given[g]]
    /\ last' = [op |-> "dispose", mgr |-> "", mgrs |-> ms, name |-> <<>>, more |-> <<>>,
                internal |-> FALSE, exc |-> "none", resource |-> None,
                trace |-> <<>>]
    /\ UNCHANGED <<dirs, nextHandle, loaded, inputVars, tileVars, imageVars,
                   apiVars>>

\* ResourceManager.dispose
Dispose == Disposed(dispose_all(cache, freed, Managers), ManagerSet)

Next ==
    \/ \E font \in Names, size \in Sizes : GetFont(font, size)
    \/ \E image \in Names, internal \in BOOLEAN : GetImage(image, internal)
    \/ \E sound \in Names : GetSound(sound)
    \/ \E music \in Names : GetMusic(music)
    \/ \E tilemap \in Names : GetTilemap(tilemap)
    \/ \E m \in ManagerSet \ {"images"} : GetInternal(m, <<"a">>)
    \/ Dispose

Spec == Init /\ [][Next]_vars

-----------------------------------------------------------------------------
(* Properties of the caches *)

\* the loader calls (file-backed or internal) of a trace
Loads(trace) ==
    {trace[i] : i \in {j \in 1..Len(trace) :
                         trace[j].ev \in {"load", "load_internal"}}}

\* the directory searches of a trace
Searches(trace) ==
    {trace[i] : i \in {j \in 1..Len(trace) : trace[j].ev = "search"}}

\* the (manager, key) pairs of the caches that hold resource h
Holders(c, h) ==
    UNION { {<<m, k>> : k \in {x \in DOMAIN c[m] : c[m][x] = h}}
            : m \in ManagerSet }

\* C1: a get call (nested ones included) whose trimmed, lower-cased name and
\* discriminators equal those of an earlier get call of the same cache that
\* returned a resource, with no dispose in between, returns that same
\* resource and invokes no loader of that cache.
C1_CacheIdempotence ==
    [][ last'.op = "get" =>
          \A e \in Returns(last'.trace) :
            \A g \in given[e.mgr] :
              (Norm(e.name) = g.name /\ e.more = g.more) =>
                /\ e.resource = g.resource
                /\ \A l \in Loads(last'.trace) :
                     ~(l.mgr = e.mgr /\ Norm(l.name) = g.name /\ l.more = g.more)
      ]_vars

\* C1 witness: a get of the name "a" (written "a" or " A ") is answered
\* from the cache, without a loader call, with the resource that was loaded
\* under the key "a".
C1_Witness ==
    /\ last.op = "get"
    /\ last.exc = "none"
    /\ last.name = <<"a">>
    /\ Loads(last.trace) = {}
    /\ last.resource \in DOMAIN loaded
    /\ loaded[last.resource].key[1] = <<"a">>

\* C2: two get calls of one cache with the same name and different
\* discriminators return different resources, held under two cache keys,
\* each produced by a loader call of its own that was given its own
\* discriminator (the font loader its own point size).
C2_DiscriminatorsDistinct ==
    \A m \in ManagerSet :
      \A g1 \in given[m], g2 \in given[m] :
        (g1.name = g2.name /\ g1.more # g2.more) =>
          /\ g1.resource # g2.resource
          /\ \E k1 \in DOMAIN cache[m], k2 \in DOMAIN cache[m] :
               /\ k1 # k2
               /\ cache[m][k1] = g1.resource
               /\ cache[m][k2] = g2.resource
          /\ m = "fonts" =>
               /\ loaded[g1.resource].ptsize = g1.more[1]
               /\ loaded[g2.resource].ptsize = g2.more[1]

\* C2 witness: the font "a" is cached at 12 and at 24 points.
C2_Witness ==
    \E g1 \in given["fonts"], g2 \in given["fonts"] :
        /\ g1.name = <<"a">> /\ g2.name = <<"a">>
        /\ g1.more = <<12>> /\ g2.more = <<24>>
        /\ Cardinality(DOMAIN cache["fonts"]) = 2

\* C3: every resource a loader produced is either held in the caches under
\* exactly one key (the key it was loaded for, in its own manager's cache)
\* and not released, or held under no key and released exactly once; the
\* caches hold nothing else, and no two unreleased resources were loaded
\* for the same key.
C3_OneInstancePerKey ==
    /\ \A h \in DOMAIN loaded :
         \/ /\ Holders(cache, h) = {<<loaded[h].mgr, loaded[h].key>>}
            /\ freed[h] = 0
         \/ /\ Holders(cache, h) = {}
            /\ freed[h] = 1
    /\ \A m \in ManagerSet : \A k \in DOMAIN cache[m] : cache[m][k] \in DOMAIN loaded
    /\ \A h1 \in DOMAIN loaded, h2 \in DOMAIN loaded :
         (h1 # h2 /\ freed[h1] = 0 /\ freed[h2] = 0) =>
            <<loaded[h1].mgr, loaded[h1].key>> # <<loaded[h2].mgr, loaded[h2].key>>

\* C3 witness: one resource is held by a cache while another, loaded for
\* the same key before a dispose, has been released.
C3_Witness ==
    \E h1 \in DOMAIN loaded, h2 \in DOMAIN loaded :
        /\ h1 # h2
        /\ loaded[h1].mgr = loaded[h2].mgr
        /\ loaded[h1].key = loaded[h2].key
        /\ freed[h1] = 1
        /\ freed[h2] = 0
        /\ Holders(cache, h2) # {}

\* C4: ResourceManager.dispose calls free_resource exactly once on every
\* resource held by any of the five caches at that moment and on no other,
\* and leaves the five caches empty; a get on an empty cache that passes
\* the name check searches the directories (or calls the internal loader),
\* and when it returns, it returns a resource loaded by that very call.
C4_DisposeReleasesAll ==
    [][ /\ last'.op = "dispose" =>
             /\ \A m \in ManagerSet : cache'[m] = EmptyCache
             /\ DOMAIN freed' = DOMAIN freed
             /\ \A h \in DOMAIN freed :
                  freed'[h] = freed[h] + (IF Holders(cache, h) # {} THEN 1 ELSE 0)
        /\ (last'.op = "get" /\ cache[last'.mgr] = EmptyCache
              /\ last'.exc # "ValueError") =>
             /\ \E l \in Searches(last'.trace) \cup Loads(last'.trace) :
                  l.mgr = last'.mgr
             /\ last'.exc = "none" =>
                  /\ last'.resource \notin DOMAIN loaded
                  /\ \E l \in Loads(last'.trace) : l.mgr = last'.mgr
      ]_vars

\* C4 witness: a dispose has just released resources of two different
\* caches.
C4_Witness ==
    /\ last.op = "dispose"
    /\ \E h1 \in DOMAIN loaded, h2 \in DOMAIN loaded :
         /\ loaded[h1].mgr # loaded[h2].mgr
         /\ freed[h1] = 1
         /\ freed[h2] = 1

\* C5: a get call, whatever its outcome, keeps every key of every cache
\* and the resource stored under it.
C5_NoEviction ==
    [][ last'.op = "get" =>
          \A m \in ManagerSet : \A k \in DOMAIN cache[m] :
              k \in DOMAIN cache'[m] /\ cache'[m][k] = cache[m][k]
      ]_vars

\* C5 witness: a get has just added a second entry to a cache.
C5_Witness ==
    /\ last.op = "get"
    /\ last.exc = "none"
    /\ Loads(last.trace) # {}
    /\ Cardinality(DOMAIN cache[last.mgr]) = 2

\* C6: a get call that raises leaves its manager's cache as it was, no
\* cache ever holds an empty resource, and a get that raises anything but
\* the name error was not answered from the cache: it searched the
\* directories or called the internal loader.
C6_FailureNotCached ==
    [][ (last'.op = "get" /\ last'.exc # "none") =>
          /\ cache'[last'.mgr] = cache[last'.mgr]
          /\ \A m \in ManagerSet : \A k \in DOMAIN cache'[m] : cache'[m][k] # None
          /\ last'.exc # "ValueError" =>
               \E l \in Searches(last'.trace) \cup Loads(last'.trace) :
                   l.mgr = last'.mgr
      ]_vars

\* C6 witness: a font load has just failed at one size while the font is
\* cached at another size.
C6_Witness ==
    /\ last.op = "get"
    /\ last.mgr = "fonts"
    /\ last.exc # "none"
    /\ Loads(last.trace) # {}
    /\ cache["fonts"] # EmptyCache

-----------------------------------------------------------------------------
(* Properties of the error paths and of the directory search *)

\* the events of a trace that record a loader returning no resource
NoResource(trace) ==
    {trace[i] : i \in {j \in 1..Len(trace) : trace[j].ev = "no_resource"}}

\* some file of directory root is name, a dot and one of manager m's
\* extensions (upper or lower case)
HoldsFileFor(root, m, name) ==
    \E c \in dirs[root] : RuleMatchExact(name, file_types(m), c)

\* C7: a get with internal=false whose trimmed, lower-cased name is not an
\* ASCII letter followed only by ASCII letters and digits raises ValueError
\* and has searched no directory and called no loader.
C7_InvalidNameRejected ==
    (last.op = "get" /\ ~last.internal /\ ~MatchNameFull(last.name)) =>
        (last.exc = "ValueError" /\ last.trace = <<>>)

\* C8: a get with internal=false and a well-formed name for which neither
\* directory holds a file name.ext with an allowed extension raises KeyError
\* and calls no loader.
C8_NotFoundWithoutFile ==
    (/\ last.op = "get"
     /\ ~last.internal
     /\ MatchNameFull(last.name)
     /\ ~HoldsFileFor("app", last.mgr, last.name)
     /\ ~HoldsFileFor("builtin", last.mgr, last.name)) =>
        (last.exc = "KeyError" /\ Loads(last.trace) = {})

\* C9: a get whose loader (file-backed or internal) returned no resource
\* raises IOError.
C9_NullLoadRaisesLoadError ==
    (last.op = "get" /\ NoResource(last.trace) # {}) => last.exc = "IOError"

\* C10: every file a get hands to a loader lies in one of the two
\* directories; when the application's directory holds a file for the name
\* the loaded file comes from it, and a file is loaded from the built-in
\* directory only when no entry of the application's directory matches.
C10_AppDirectoryFirst ==
    last.op = "get" =>
      \A l \in Loads(last.trace) :
        l.ev = "load" =>
          /\ l.file[1] \in {"app", "builtin"}
          /\ l.file[2] \in dirs[l.file[1]]
          /\ HoldsFileFor("app", l.mgr, l.name) => l.file[1] = "app"
          /\ l.file[1] = "builtin" =>
               /\ ~HoldsFileFor("app", l.mgr, l.name)
               /\ \A c \in dirs["app"] : ~RuleMatch(l.name, file_types(l.mgr), c)

\* C10 witness: both directories hold an image file for "a" and a get has
\* loaded the one of the application's directory.
C10_Witness ==
    /\ last.op = "get"
    /\ last.exc = "none"
    /\ \E l \in Loads(last.trace) :
         /\ l.ev = "load"
         /\ l.file[1] = "app"
         /\ HoldsFileFor("app", l.mgr, l.name)
         /\ HoldsFileFor("builtin", l.mgr, l.name)

-----------------------------------------------------------------------------
(* The input tracker: build/lib/micro/input.py *)

\* update calls in one run
MaxFrames == 5

\* key notifications that can be pending between two update calls
MaxPending == 2

\* joysticks that can be connected
MaxJoysticks == 3

\* the logical screen: api.width, api.height
ScreenSize == <<320, 180>>

\* the names SDL_GetKeyName gives the keys of the model
KeySyms == { <<"A">>, <<"-">> }

\* the display names SDL_JoystickName can report
DeviceNames == { <<"G","e","n","e","r","i","c"," ","G","a","m","e","p","a","d">>,
                 <<"P","a","d">>,
                 <<"P","a","d"," ","2">> }

\* a connected joystick: its display name, whether SDL_JoystickOpen
\* succeeds, and its numbers of buttons and axes (one button, two axes)
Devices ==
    { [name |-> n, opens |-> o, buttons |-> 1, axes |-> 2]
      : n \in DeviceNames, o \in BOOLEAN }

\* the raw axis readings of SDL_JoystickGetAxis that are tried: full
\* negative, just inside the dead zone on the negative side, about 0.2,
\* just outside the dead zone, about 0.5
RawAxis == { -32768, -10911, 6553, 10912, 16384 }

\* window sizes: the logical size, twice it, and a taller window
WindowSizes == { <<320, 180>>, <<640, 360>>, <<640, 480>> }

\* raw mouse positions of SDL_GetMouseState
MousePositions == { <<0, 0>>, <<100, 50>>, <<639, 479>> }

\* button bits of SDL_GetMouseState
MouseBits == { 0, 1, 2, 4, 7 }

MouseButtonNames == {"left", "middle", "right"}

\* the replacement table of key_name (the quote and the backtick, which no
\* key of the model has in its name, are left out)
KeyNameSub(c) ==
    CASE c = " "  -> <<"_">>
      [] c = "\\" -> <<"b","a","c","k","s","l","a","s","h">>
      [] c = "."  -> <<"p","e","r","i","o","d">>
      [] c = ","  -> <<"c","o","m","m","a">>
      [] c = "/"  -> <<"s","l","a","s","h">>
      [] c = "#"  -> <<"h","a","s","h">>
      [] c = ";"  -> <<"s","e","m","i","c","o","l","o","n">>
      [] c = "["  -> <<"o","p","e","n","_","b","r","a","c","k","e","t">>
      [] c = "]"  -> <<"c","l","o","s","e","_","b","r","a","c","k","e","t">>
      [] c = "="  -> <<"e","q","u","a","l","s">>
      [] c = "-"  -> <<"m","i","n","u","s">>
      [] c = "+"  -> <<"p","l","u","s">>
      [] c = "*"  -> <<"a","s","t","e","r","i","s","k">>
      [] OTHER    -> <<c>>

RECURSIVE SubAll(_)
SubAll(s) == IF s = <<>> THEN <<>> ELSE KeyNameSub(Head(s)) \o SubAll(Tail(s))

\* InputHandler.key_name: SDL's name lower-cased, punctuation spelled out
key_name(id) == SubAll(Lower(id))

KeyNames == { key_name(id) : id \in KeySyms }

\* decimal digits of a natural number ('%d')
DigitChars == <<"0","1","2","3","4","5","6","7","8","9">>

RECURSIVE Decimal(_)
Decimal(n) ==
    IF n < 10 THEN <<DigitChars[n + 1]>>
    ELSE Decimal(n \div 10) \o <<DigitChars[(n % 10) + 1]>>

\* re.sub(r'[^0-9a-z]', '', s)
RECURSIVE KeepAlnum(_)
KeepAlnum(s) ==
    IF s = <<>> THEN <<>>
    ELSE IF Head(s) \in DIGITS \/ Head(s) \in Letters
         THEN <<Head(s)>> \o KeepAlnum(Tail(s))
         ELSE KeepAlnum(Tail(s))

\* the normalized name of a device: every character that is not a lower-case
\* letter or a digit is removed after lower-casing (nothing is left to split)
base_name(display) == KeepAlnum(Lower(display))

\* the normalized name whether it is taken or not
CandidateTaken(table, base, candidate, index) == base

\* the first unused of base_name, base_name2, base_name3, ...
RECURSIVE Candidate(_, _, _, _)
Candidate(table, base, candidate, index) ==
    IF candidate \in DOMAIN table
    THEN Candidate(table, base, base \o Decimal(index), index + 1)
    ELSE candidate

\* an axis value: the fraction num/den
Frac(num, den) == IF num = 0 THEN <<0, 1>> ELSE <<num, den>>

\* a * 1000 compared with the threshold in thousandths
Below(value, milli) == value[1] * 1000 < milli * value[2]

Above(value, milli) == value[1] * 1000 > milli * value[2]

\* Joystick.__init__
NewJoystick(device) ==
    [buttons |-> [b \in 0..(device.buttons - 1) |-> 0],
     axis    |-> [a \in 0..(device.axes - 1) |-> Frac(0, 1)],
     daxis   |-> [d \in 0..(2 * device.axes - 1) |-> 0],
     closed  |-> FALSE]

\* a normalized value with no axis inverted
AxisValueUpright(axis, raw) ==
    IF raw > 0 THEN Frac(raw, 32767) ELSE Frac(raw, 32768)

\* the normalized value of a raw reading of axis number axis
AxisValue(axis, raw) ==
    LET value == IF raw > 0 THEN Frac(raw, 32767) ELSE Frac(raw, 32768)
    IN  IF axis = 1 THEN Frac(-value[1], value[2]) ELSE value

\* directional counters that are never reset
DirectionUnreset(d, value, old) ==
    IF d % 2 = 0
    THEN IF Below(value, -333) THEN old + 1 ELSE old
    ELSE IF Above(value, 333) THEN old + 1 ELSE old

\* the counters of the two swapped
DirectionSwapped(d, value, old) ==
    IF d % 2 = 1
    THEN IF Below(value, -333) THEN old + 1 ELSE 0
    ELSE IF Above(value, 333) THEN old + 1 ELSE 0

\* the directional counter d (2*axis for negative, 2*axis + 1 for positive)
Direction(d, value, old) ==
    IF d % 2 = 0
    THEN IF Below(value, -333) THEN old + 1 ELSE 0
    ELSE IF Above(value, 333) THEN old + 1 ELSE 0

\* a button that is never reset
ButtonSticky(state, old) == old + 1

\* a button counter after one poll
Button(state, old) == IF state # 0 THEN old + 1 ELSE 0

\* Joystick.update, the device reading polled = [buttons, axes]
JoystickUpdate(j, polled) ==
    LET value(a) == AxisValue(a, polled.axes[a])
    IN  [j EXCEPT
           !.buttons = [b \in DOMAIN j.buttons |->
                          Button(polled.buttons[b], j.buttons[b])],
           !.daxis   = [d \in DOMAIN j.daxis |->
                          Direction(d, value(d \div 2), j.daxis[d])],
           !.axis    = [a \in DOMAIN j.axis |-> value(a)]]

\* the loop of InputHandler.__init__ over the devices from the i-th on:
\* st = [joysticks, sticks, default_joystick]; a Joystick object is
\* numbered by the enumeration index of its device
RECURSIVE OpenJoysticks(_, _, _)
OpenJoysticks(devs, i, st) ==
    IF i > Len(devs) THEN st
    ELSE IF ~devs[i].opens THEN OpenJoysticks(devs, i + 1, st)
    ELSE LET base == base_name(devs[i].name)
             name == Candidate(st.joysticks, base, base, 2)
         IN  OpenJoysticks(devs, i + 1,
               [joysticks |-> [n \in DOMAIN st.joysticks \cup {name} |->
                                 IF n = name THEN i ELSE st.joysticks[n]],
                sticks |-> [k \in DOMAIN st.sticks \cup {i} |->
                              IF k = i THEN NewJoystick(devs[i])
                              ELSE st.sticks[k]],
                default_joystick |->
                    IF st.default_joystick = None THEN i
                    ELSE st.default_joystick])

\* a joystick name argument: NoName for None, Named(s) for the string s
NoName == {}

Named(s) == {s}

\* a lookup that falls back on the default joystick for an unknown name
get_joystick_lenient(joystick_name) ==
    LET name == Strip(Lower(CHOOSE s \in joystick_name : TRUE))
    IN  IF joystick_name # NoName /\ name \in DOMAIN joysticks
        THEN [exc |-> "none", joystick |-> joysticks[name]]
        ELSE [exc |-> "none", joystick |-> default_joystick]

\* InputHandler.get_joystick: [exc, joystick]
get_joystick(joystick_name) ==
    IF joystick_name # NoName
    THEN LET name == Strip(Lower(CHOOSE s \in joystick_name : TRUE))
         IN  IF name \in DOMAIN joysticks
             THEN [exc |-> "none", joystick |-> joysticks[name]]
             ELSE [exc |-> "KeyError", joystick |-> None]
    ELSE [exc |-> "none", joystick |-> default_joystick]

\* InputHandler.axis_count: [exc, value]
axis_count(joystick_name) ==
    LET j == get_joystick(joystick_name)
    IN  IF j.exc # "none" THEN [exc |-> j.exc, value |-> None]
        ELSE IF j.joystick = None THEN [exc |-> "none", value |-> 0]
        ELSE [exc |-> "none",
              value |-> Cardinality(DOMAIN sticks[j.joystick].axis)]

\* InputHandler.get_axis: [exc, value]
get_axis(index, joystick_name) ==
    LET j == get_joystick(joystick_name)
    IN  IF j.exc # "none" THEN [exc |-> j.exc, value |-> None]
        ELSE IF j.joystick = None THEN [exc |-> "none", value |-> Frac(0, 1)]
        ELSE IF index \in DOMAIN sticks[j.joystick].axis
        THEN [exc |-> "none", value |-> sticks[j.joystick].axis[index]]
        ELSE [exc |-> "none", value |-> Frac(0, 1)]

\* InputHandler.get_daxis: [exc, value]
get_daxis(index, dir, joystick_name) ==
    LET j == get_joystick(joystick_name)
    IN  IF j.exc # "none" THEN [exc |-> j.exc, value |-> None]
        ELSE IF j.joystick = None THEN [exc |-> "none", value |-> 0]
        ELSE IF index \in DOMAIN sticks[j.joystick].axis
        THEN [exc |-> "none",
              value |-> sticks[j.joystick].daxis[index * 2 + dir]]
        ELSE [exc |-> "none", value |-> 0]

\* InputHandler.button_count: [exc, value]
button_count(joystick_name) ==
    LET j == get_joystick(joystick_name)
    IN  IF j.exc # "none" THEN [exc |-> j.exc, value |-> None]
        ELSE IF j.joystick = None THEN [exc |-> "none", value |-> 0]
        ELSE [exc |-> "none",
              value |-> Cardinality(DOMAIN sticks[j.joystick].buttons)]

\* InputHandler.get_button: [exc, value]
get_button(index, joystick_name) ==
    LET j == get_joystick(joystick_name)
    IN  IF j.exc # "none" THEN [exc |-> j.exc, value |-> None]
        ELSE IF j.joystick = None THEN [exc |-> "none", value |-> 0]
        ELSE IF index \in DOMAIN sticks[j.joystick].buttons
        THEN [exc |-> "none", value |-> sticks[j.joystick].buttons[index]]
        ELSE [exc |-> "none", value |-> 0]

\* dict.get(name, 0) on a table of counters
CounterOf(table, name) == IF name \in DOMAIN table THEN table[name] ELSE 0

\* InputHandler.key
key(name) == CounterOf(keys, Lower(Strip(name)))

\* a repeat that restarts the counter
KeyDownAlways(ks, name, repeat) ==
    [n \in DOMAIN ks \cup {name} |-> IF n = name THEN 1 ELSE ks[n]]

\* the SDL_KEYDOWN branch of InputHandler.process
KeyDown(ks, name, repeat) ==
    IF ~repeat
    THEN [n \in DOMAIN ks \cup {name} |-> IF n = name THEN 1 ELSE ks[n]]
    ELSE ks

\* a release that leaves the entry in place
KeyUpKept(ks, name) == ks

\* the SDL_KEYUP branch of InputHandler.process: del self.keys[name]
KeyUp(ks, name) == [n \in DOMAIN ks \ {name} |-> ks[n]]

\* InputHandler.process on the table ks: [exc, keys]
process(ks, event) ==
    LET name == key_name(event.sym)
    IN  IF event.type = "KEYDOWN"
        THEN [exc |-> "none", keys |-> KeyDown(ks, name, event.repeat)]
        ELSE IF event.type = "KEYUP"
        THEN IF name \in DOMAIN ks
             THEN [exc |-> "none", keys |-> KeyUp(ks, name)]
             ELSE [exc |-> "KeyError", keys |-> ks]
        ELSE [exc |-> "none", keys |-> ks]

\* MicroPyApi.poll: the pending notifications are taken from the queue and
\* processed one by one; an exception leaves the rest in the queue
RECURSIVE poll(_, _, _)
poll(ks, queue, done) ==
    IF queue = <<>>
    THEN [exc |-> "none", keys |-> ks, events |-> queue, done |-> done]
    ELSE LET r == process(ks, Head(queue))
         IN  IF r.exc # "none"
             THEN [exc |-> r.exc, keys |-> r.keys, events |-> Tail(queue),
                   done |-> Append(done, Head(queue))]
             ELSE poll(r.keys, Tail(queue), Append(done, Head(queue)))

\* a table of counters that is not advanced
Unadvanced(ks) == ks

\* the first loop of InputHandler.update
Advanced(ks) == [n \in DOMAIN ks |-> ks[n] + 1]

\* int(a / b) for b > 0: the quotient truncated towards zero
TruncDiv(a, b) == IF a >= 0 THEN a \div b ELSE -((-a) \div b)

\* the logical mouse position InputHandler.update computes from the raw
\* position pos, the window size win and the logical screen size
LogicalMouse(pos, win) ==
    LET W == ScreenSize[1]
        H == ScreenSize[2]
        w == win[1]
        h == win[2]
        \* scale = min(w / W, h / H), as the fraction scale[1] / scale[2]
        scale    == IF w * H <= h * W THEN <<w, W>> ELSE <<h, H>>
        width    == (W * scale[1]) \div scale[2]
        height   == (H * scale[1]) \div scale[2]
        corner_x == (w - width) \div 2
        corner_y == (h - height) \div 2
        x == TruncDiv((pos[1] - corner_x) * scale[2], scale[1])
        y == TruncDiv((pos[2] - corner_y) * scale[2], scale[1])
    IN  <<x - (W \div 2), (H \div 2) - y>>

\* a previous position that is never seeded
PrevUnseeded(prev, now) == IF prev = <<>> THEN <<0, 0>> ELSE prev

\* mouse_prev as the relative movement uses it
PrevSeeded(prev, now) == IF prev = <<>> THEN now ELSE prev

\* the mouse button counters after a poll of button_bits
MouseButtons(old, bits) ==
    [b \in MouseButtonNames |->
        LET mask == CASE b = "left" -> 1 [] b = "middle" -> 2 [] OTHER -> 4
        IN  Button((bits \div mask) % 2, old[b])]

\* a joystick at rest
AtRest(j) == [buttons |-> [b \in DOMAIN j.buttons |-> 0],
              axes    |-> [a \in DOMAIN j.axis |-> 0]]

\* the readings of all opened joysticks in which at most one control of
\* one joystick is off its rest position
JoyReadings ==
    LET rest == [i \in DOMAIN sticks |-> AtRest(sticks[i])]
    IN  {rest}
        \cup UNION {{[rest EXCEPT ![i].buttons[b] = 1]
                     : b \in DOMAIN sticks[i].buttons}
                    : i \in DOMAIN sticks}
        \cup UNION {{[rest EXCEPT ![i].axes[a] = raw]
                     : a \in DOMAIN sticks[i].axis, raw \in RawAxis}
                    : i \in DOMAIN sticks}

\* the frames a key has been held after an update that processed the
\* notifications done: 1 after a press, 0 after a release, one more than
\* before for a key that stays held
HeldAfter(old, done, name) ==
    LET edges == {i \in 1..Len(done) :
                    /\ key_name(done[i].sym) = name
                    /\ \/ done[i].type = "KEYUP"
                       \/ done[i].type = "KEYDOWN" /\ ~done[i].repeat}
    IN  IF edges = {}
        THEN IF old > 0 THEN old + 1 ELSE 0
        ELSE LET lastEdge == CHOOSE i \in edges : \A j \in edges : j <= i
             IN  IF done[lastEdge].type = "KEYDOWN" THEN 1 ELSE 0

\* the joystick lists of a run in which the player uses the joysticks: one
\* pad with three axes, or two pads with two axes each of which the first
\* may fail to open
PlayedDevices ==
    LET pad(o, n) == [name |-> <<"G","e","n","e","r","i","c"," ",
                                "G","a","m","e","p","a","d">>,
                      opens |-> o, buttons |-> 1, axes |-> n]
    IN  { <<pad(TRUE, 3)>>, <<pad(TRUE, 2), pad(TRUE, 2)>>,
          <<pad(FALSE, 2), pad(TRUE, 2)>> }

\* every list of at most MaxJoysticks connected joysticks
DeviceLists == UNION {[1..n -> Devices] : n \in 0..MaxJoysticks}

\* no resource cache exists in a run of the input tracker or of a tile map
ResourcesAbsent ==
    /\ dirs = <<>> /\ cache = <<>> /\ nextHandle = 1 /\ loaded = <<>>
    /\ freed = <<>> /\ given = <<>> /\ last = <<>>

\* InputHandler.__init__, in a run where the player uses the keyboard, the
\* mouse, the joysticks or nothing
InputInit ==
    /\ focus \in {"keyboard", "mouse", "joystick", "none"}
    /\ devices \in (CASE focus = "joystick" -> PlayedDevices
                      [] focus = "none" -> DeviceLists
                      [] OTHER -> { <<>> })
    /\ window \in (IF focus = "mouse" THEN WindowSizes ELSE {ScreenSize})
    /\ down \in (IF focus = "keyboard" THEN SUBSET KeySyms ELSE { {} })
    /\ LET st == OpenJoysticks(devices, 1,
                   [joysticks |-> <<>>, sticks |-> <<>>,
                    default_joystick |-> None])
       IN  /\ joysticks = st.joysticks
           /\ sticks = st.sticks
           /\ default_joystick = st.default_joystick
    /\ keys = <<>>
    /\ mouse = <<0, 0>>
    /\ mouse_prev = <<>>
    /\ mouse_rel = <<0, 0>>
    /\ mouse_buttons = [b \in MouseButtonNames |-> 0]
    /\ events = <<>>
    /\ frame = 0
    /\ heldFrames = [n \in KeyNames |-> 0]
    /\ inputLast = [op |-> "init", exc |-> "none", bits |-> 0, pos |-> <<0, 0>>,
                    joy |-> <<>>, advanced |-> <<>>, done |-> <<>>,
                    steps |-> <<>>]
    /\ ResourcesAbsent
    /\ TileMapAbsent
    /\ ImageAbsent
    /\ ApiAbsent

\* an update that processes the notifications before the counters advance
FramePollFirst(ks, queue) ==
    LET r == poll(ks, queue, <<>>)
    IN  [keys |-> Advanced(r.keys), events |-> r.events, done |-> r.done,
         exc |-> r.exc, advanced |-> Advanced(ks),
         steps |-> <<"poll", "input.update", "present">>]

\* the steps of MicroPyApi.update on the key counters ks and the pending
\* notifications queue: self.input.update(), then self.poll(), then,
\* unless poll raised, the frame is presented
Frame(ks, queue) ==
    LET advanced == Advanced(ks)
        r == poll(advanced, queue, <<>>)
    IN  [keys |-> r.keys, events |-> r.events, done |-> r.done,
         exc |-> r.exc, advanced |-> advanced,
         steps |-> IF r.exc = "none"
                   THEN <<"input.update", "poll", "present">>
                   ELSE <<"input.update", "poll">>]

\* MicroPyApi.update: InputHandler.update on the polled state (button_bits
\* and pos of the mouse, joy of the joysticks), then poll
Update ==
    /\ frame < MaxFrames
    /\ \E bits \in (IF focus = "mouse" THEN MouseBits ELSE {0}),
          pos \in (IF focus = "mouse" THEN MousePositions ELSE { <<0, 0>> }),
          joy \in (IF focus = "joystick" THEN JoyReadings
                   ELSE { [i \in DOMAIN sticks |-> AtRest(sticks[i])] }) :
        LET listed == {joysticks[n] : n \in DOMAIN joysticks}
            now == LogicalMouse(pos, window)
            prev == PrevSeeded(mouse_prev, now)
            r == Frame(keys, events)
        IN  /\ sticks' = [i \in DOMAIN sticks |->
                            IF i \in listed
                            THEN JoystickUpdate(sticks[i], joy[i])
                            ELSE sticks[i]]
            /\ mouse_buttons' = MouseButtons(mouse_buttons, bits)
            /\ mouse' = now
            /\ mouse_rel' = <<now[1] - prev[1], now[2] - prev[2]>>
            /\ mouse_prev' = now
            /\ keys' = r.keys
            /\ events' = r.events
            /\ heldFrames' = [n \in KeyNames |->
                                HeldAfter(heldFrames[n], r.done, n)]
            /\ inputLast' = [op |-> "update", exc |-> r.exc, bits |-> bits,
                             pos |-> pos, joy |-> joy,
                             advanced |-> r.advanced, done |-> r.done,
                             steps |-> r.steps]
    /\ frame' = frame + 1
    /\ UNCHANGED <<joysticks, default_joystick, devices, window, focus, down,
                   resourceVars, tileVars, imageVars,
                   apiVars>>

\* SDL queues notification event
Notify(event) ==
    /\ focus = "keyboard"
    /\ Len(events) < MaxPending
    /\ events' = Append(events, event)
    /\ UNCHANGED <<keys, joysticks, sticks, default_joystick, mouse, mouse_prev,
                   mouse_rel, mouse_buttons, devices, window, focus, frame,
                   heldFrames, inputLast, resourceVars, tileVars, imageVars,
                   apiVars>>

\* the player presses a key: SDL_KEYDOWN
Press(sym) ==
    /\ sym \notin down
    /\ down' = down \cup {sym}
    /\ Notify([type |-> "KEYDOWN", sym |-> sym, repeat |-> FALSE])

\* the keyboard repeats a held key: SDL_KEYDOWN with repeat set
Repeat(sym) ==
    /\ sym \in down
    /\ down' = down
    /\ Notify([type |-> "KEYDOWN", sym |-> sym, repeat |-> TRUE])

\* the player releases a key: SDL_KEYUP
Release(sym) ==
    /\ sym \in down
    /\ down' = down \ {sym}
    /\ Notify([type |-> "KEYUP", sym |-> sym, repeat |-> FALSE])

\* InputHandler.dispose
InputDispose ==
    /\ sticks' = [i \in DOMAIN sticks |->
                    IF i \in {joysticks[n] : n \in DOMAIN joysticks}
                    THEN [sticks[i] EXCEPT !.closed = TRUE]
                    ELSE sticks[i]]
    /\ joysticks' = <<>>
    /\ UNCHANGED <<keys, default_joystick, mouse, mouse_prev, mouse_rel,
                   mouse_buttons, devices, window, focus, events, down, frame,
                   heldFrames, inputLast, resourceVars, tileVars, imageVars,
                   apiVars>>

InputNext ==
    \/ Update
    \/ \E sym \in KeySyms : Press(sym)
    \/ \E sym \in KeySyms : Repeat(sym)
    \/ \E sym \in KeySyms : Release(sym)
    \/ InputDispose

InputSpec == InputInit /\ [][InputNext]_vars

-----------------------------------------------------------------------------
(* Properties of the input tracker *)

\* this step is a call of update
UpdateStep == frame' = frame + 1

Listed == {joysticks[n] : n \in DOMAIN joysticks}

NotRepeat(e) == ~(e.type = "KEYDOWN" /\ e.repeat)

\* the positions in done of the presses and releases of key name
Edges(done, name) ==
    {i \in 1..Len(done) : key_name(done[i].sym) = name /\ NotRepeat(done[i])}

LastEdge(done, name) ==
    CHOOSE i \in Edges(done, name) : \A j \in Edges(done, name) : j <= i

\* C11: a key whose press has been processed and which stays held reads,
\* through key(), the number of update calls made since, the one that
\* processed the press included: 1, 2, 3, 4, 5 after five update calls; a
\* key that is not held reads 0.
C11_HoldCounterCountsFrames ==
    \A name \in KeyNames : key(name) = heldFrames[name]

C11_Witness ==
    \E name \in KeyNames :
        /\ heldFrames[name] = 5
        /\ key(name) = 5
        /\ frame = 5

\* C12: key-down notifications flagged as repeats have no effect on the
\* key counters: after an update call the counters are what the other
\* notifications of that call alone make of the advanced counters, so a
\* repeat neither resets nor increments a counter nor creates an entry.
C12_RepeatIgnored ==
    [][UpdateStep =>
        /\ keys' = poll(inputLast'.advanced,
                        SelectSeq(inputLast'.done, NotRepeat), <<>>).keys
        /\ (\A i \in 1..Len(inputLast'.done) : ~NotRepeat(inputLast'.done[i]))
               => keys' = inputLast'.advanced
      ]_vars

C12_Witness ==
    /\ inputLast.op = "update"
    /\ \E i \in 1..Len(inputLast.done) :
          /\ ~NotRepeat(inputLast.done[i])
          /\ key(key_name(inputLast.done[i].sym)) >= 3
    /\ \E i \in 1..Len(inputLast.done) :
          /\ ~NotRepeat(inputLast.done[i])
          /\ key(key_name(inputLast.done[i].sym)) = 0

\* C13: in an update call, a key whose last processed press or release is
\* a release reads 0 afterwards, whatever its counter was; a key that read 0
\* and got no press stays at 0; a key whose last processed press or release
\* is a press reads 1.
C13_ReleaseResets ==
    [][UpdateStep =>
        \A name \in KeyNames :
            LET done == inputLast'.done
            IN  IF Edges(done, name) = {}
                THEN key(name) = 0 => key(name)' = 0
                ELSE IF done[LastEdge(done, name)].type = "KEYUP"
                THEN key(name)' = 0
                ELSE key(name)' = 1
      ]_vars

C13_Witness ==
    /\ inputLast.op = "update"
    /\ \E i \in 1..Len(inputLast.done) :
          LET name == key_name(inputLast.done[i].sym)
          IN  /\ inputLast.done[i].type = "KEYUP"
              /\ name \in DOMAIN inputLast.advanced
              /\ inputLast.advanced[name] >= 3
              /\ key(name) = 0

\* C14: after each update call every button counter of every listed
\* joystick and every mouse button counter is its previous value plus 1 if
\* the button was polled active and 0 if it was polled inactive.
C14_ButtonCounters ==
    [][UpdateStep =>
        /\ \A i \in Listed : \A b \in DOMAIN sticks[i].buttons :
              sticks'[i].buttons[b] =
                  IF inputLast'.joy[i].buttons[b] # 0
                  THEN sticks[i].buttons[b] + 1 ELSE 0
        /\ mouse_buttons'["left"] =
              IF inputLast'.bits % 2 = 1 THEN mouse_buttons["left"] + 1 ELSE 0
        /\ mouse_buttons'["middle"] =
              IF (inputLast'.bits \div 2) % 2 = 1
              THEN mouse_buttons["middle"] + 1 ELSE 0
        /\ mouse_buttons'["right"] =
              IF (inputLast'.bits \div 4) % 2 = 1
              THEN mouse_buttons["right"] + 1 ELSE 0
      ]_vars

C14_Witness ==
    /\ Listed = {1, 2}
    /\ sticks[2].buttons[0] = 3
    /\ sticks[1].buttons[0] = 0

\* C15: at each update, for every axis of every listed joystick, the
\* positive-direction counter is incremented if the normalized value is
\* greater than 0.333 and reset to 0 otherwise, and the negative-direction
\* counter is incremented if the value is less than -0.333 and reset to 0
\* otherwise.
C15_AxisDeadZone ==
    [][UpdateStep =>
        \A i \in Listed : \A a \in DOMAIN sticks[i].axis :
            LET value == sticks'[i].axis[a]
            IN  /\ sticks'[i].daxis[2 * a + 1] =
                      IF value[1] * 1000 > 333 * value[2]
                      THEN sticks[i].daxis[2 * a + 1] + 1 ELSE 0
                /\ sticks'[i].daxis[2 * a] =
                      IF value[1] * 1000 < (-333) * value[2]
                      THEN sticks[i].daxis[2 * a] + 1 ELSE 0
      ]_vars

C15_Witness ==
    \E i \in Listed :
        /\ sticks[i].axis[0] = <<16384, 32767>>
        /\ sticks[i].daxis[1] = 3
        /\ sticks[i].daxis[0] = 0

\* the devices that opened, and the names given to those before device i
Opened == {i \in 1..Len(devices) : devices[i].opens}

NameOf(i) == CHOOSE n \in DOMAIN joysticks : joysticks[n] = i

EarlierNames(i) == {NameOf(j) : j \in {k \in Opened : k < i}}

\* C16: until dispose, the table has one entry per opened device, under
\* pairwise distinct names; a device gets its normalized name if no earlier
\* device has it, and otherwise that name followed by the least of 2, 3, ...
\* that gives an unused name.
C16_JoystickNamesDistinct ==
    (\A i \in DOMAIN sticks : ~sticks[i].closed) =>
        /\ Cardinality(DOMAIN joysticks) = Cardinality(Opened)
        /\ Listed = Opened
        /\ \A i \in Opened :
              LET base == base_name(devices[i].name)
              IN  IF base \notin EarlierNames(i)
                  THEN NameOf(i) = base
                  ELSE \E k \in 2..(Len(devices) + 1) :
                          /\ NameOf(i) = base \o Decimal(k)
                          /\ NameOf(i) \notin EarlierNames(i)
                          /\ \A k2 \in 2..(k - 1) :
                                base \o Decimal(k2) \in EarlierNames(i)

C16_Witness ==
    /\ Cardinality(Opened) = 3
    /\ DOMAIN joysticks =
          { <<"g","e","n","e","r","i","c","g","a","m","e","p","a","d">>,
            <<"g","e","n","e","r","i","c","g","a","m","e","p","a","d","2">>,
            <<"p","a","d","2">> }

\* the names a joystick query is given
JoystickQueries ==
    { <<"g","e","n","e","r","i","c","g","a","m","e","p","a","d">>,
      <<" ","G","e","n","e","r","i","c","G","a","m","e","p","a","d","2"," ">>,
      <<"G","e","n","e","r","i","c"," ","G","a","m","e","p","a","d">>,
      <<"p","a","d","3">> }

\* the first opened device, None if none opened
FirstOpened ==
    IF Opened = {} THEN None
    ELSE CHOOSE i \in Opened : \A j \in Opened : i <= j

\* C17: a joystick query given no joystick name reads the first opened
\* joystick in enumeration order, and returns 0 when no joystick opened; a
\* query naming a joystick that is not in the table fails with KeyError,
\* and one naming a joystick of the table reads that joystick.
C17_DefaultJoystick ==
    /\ get_joystick(NoName) = [exc |-> "none", joystick |-> FirstOpened]
    /\ \A index \in -1..2, dir \in 0..1 :
          IF FirstOpened = None
          THEN /\ get_button(index, NoName) = [exc |-> "none", value |-> 0]
               /\ get_daxis(index, dir, NoName) = [exc |-> "none", value |-> 0]
               /\ get_axis(index, NoName).exc = "none"
               /\ get_axis(index, NoName).value[1] = 0
               /\ button_count(NoName) = [exc |-> "none", value |-> 0]
               /\ axis_count(NoName) = [exc |-> "none", value |-> 0]
          ELSE LET first == sticks[FirstOpened]
               IN  /\ get_button(index, NoName) =
                         [exc |-> "none",
                          value |-> IF index \in DOMAIN first.buttons
                                    THEN first.buttons[index] ELSE 0]
                   /\ get_daxis(index, dir, NoName) =
                         [exc |-> "none",
                          value |-> IF index \in DOMAIN first.axis
                                    THEN first.daxis[2 * index + dir] ELSE 0]
                   /\ get_axis(index, NoName) =
                         [exc |-> "none",
                          value |-> IF index \in DOMAIN first.axis
                                    THEN first.axis[index] ELSE <<0, 1>>]
                   /\ button_count(NoName) =
                         [exc |-> "none",
                          value |-> devices[FirstOpened].buttons]
                   /\ axis_count(NoName) =
                         [exc |-> "none", value |-> devices[FirstOpened].axes]
    /\ \A name \in JoystickQueries :
          IF Norm(name) \in DOMAIN joysticks
          THEN get_button(0, Named(name)) =
                   [exc |-> "none",
                    value |-> sticks[joysticks[Norm(name)]].buttons[0]]
          ELSE /\ get_button(0, Named(name)).exc = "KeyError"
               /\ get_axis(0, Named(name)).exc = "KeyError"
               /\ get_daxis(0, 1, Named(name)).exc = "KeyError"
               /\ button_count(Named(name)).exc = "KeyError"
               /\ axis_count(Named(name)).exc = "KeyError"

C17_Witness ==
    /\ FirstOpened = 2
    /\ sticks[2].buttons[0] = 2
    /\ get_button(0, NoName).value = 2
    /\ get_button(0, Named(<<"p","a","d","3">>)).exc = "KeyError"

\* C18: the first update call leaves the relative mouse movement at
\* (0, 0) whatever the mouse position; every later one sets it to the
\* logical position it computes minus the one the previous update computed.
C18_MouseRelative ==
    [][UpdateStep =>
        IF frame = 0
        THEN mouse_rel' = <<0, 0>>
        ELSE mouse_rel' = <<mouse'[1] - mouse[1], mouse'[2] - mouse[2]>>
      ]_vars

C18_Witness ==
    /\ frame = 2
    /\ mouse_rel # <<0, 0>>
    /\ mouse # <<0, 0>>

\* C36: a release notification for a key that has no entry when it is
\* processed raises nothing and leaves the table of counters as it was.
C36_ReleaseOfUntrackedKeyIsNoOp ==
    inputLast.op = "update" =>
        \A i \in 1..Len(inputLast.done) :
            LET e == inputLast.done[i]
                before == poll(inputLast.advanced,
                               SubSeq(inputLast.done, 1, i - 1), <<>>).keys
                after == IF i = Len(inputLast.done) THEN keys
                         ELSE poll(inputLast.advanced,
                                   SubSeq(inputLast.done, 1, i), <<>>).keys
            IN  (e.type = "KEYUP" /\ key_name(e.sym) \notin DOMAIN before) =>
                    /\ ~(i = Len(inputLast.done) /\ inputLast.exc # "none")
                    /\ after = before

\* C37: of the two directional counters of a joystick axis at most one is
\* nonzero, and both are zero exactly when the normalized value last
\* polled for the axis lies in [-0.333, 0.333].
C37_OneDirectionAtATime ==
    \A i \in DOMAIN sticks : \A a \in DOMAIN sticks[i].axis :
        LET value == sticks[i].axis[a]
            negative == sticks[i].daxis[2 * a]
            positive == sticks[i].daxis[2 * a + 1]
            inside == /\ (-333) * value[2] <= value[1] * 1000
                      /\ value[1] * 1000 <= 333 * value[2]
        IN  /\ negative >= 0 /\ positive >= 0
            /\ negative = 0 \/ positive = 0
            /\ (negative = 0 /\ positive = 0) <=> inside

\* after at least three updates an axis has just been pushed up, its
\* positive counter at 1 and its negative counter at 0, while another axis
\* of the joystick rests inside the dead zone with both counters at 0
C37_Witness ==
    /\ inputLast.op = "update"
    /\ frame >= 3
    /\ \E i \in Listed :
        /\ sticks[i].axis[0] = <<16384, 32767>>
        /\ sticks[i].daxis[0] = 0
        /\ sticks[i].daxis[1] = 1
        /\ \E other \in DOMAIN sticks[i].axis :
            /\ other # 0
            /\ sticks[i].axis[other] = <<0, 1>>
            /\ sticks[i].daxis[2 * other] = 0
            /\ sticks[i].daxis[2 * other + 1] = 0

\* C38: the default joystick is unset or one of the joysticks in the name
\* table, also after dispose, and a query that names no joystick is never
\* answered with a joystick that has been closed.
C38_DefaultJoystickListed ==
    /\ default_joystick = None \/ default_joystick \in Listed
    /\ LET r == get_joystick(NoName)
       IN  r.joystick # None => ~sticks[r.joystick].closed

-----------------------------------------------------------------------------
(* Tile-map addressing: TileMap.get of build/lib/micro/resources.py *)

\* rows of a tile map
MaxRows == 3

\* cells of a row
MaxCols == 4

\* the cell stored at column c of row r: the two numbers as a tile reference
CellAt(r, c) == Decimal(10 * r + c)

\* the rows of a tile map whose rows have the lengths lens
RowsOf(lens) == [r \in 1..Len(lens) |-> [c \in 1..lens[r] |-> CellAt(r, c)]]

RECURSIVE MaxOf(_)
MaxOf(lens) ==
    IF lens = <<>> THEN 0
    ELSE LET m == MaxOf(Tail(lens))
         IN  IF Head(lens) > m THEN Head(lens) ELSE m

\* the tile map TileMapManager.load_resource builds from rows: the width is
\* the length of the longest row, the height the number of rows
TileMap(tileset, rows) ==
    [tileset |-> tileset,
     width   |-> MaxOf([r \in 1..Len(rows) |-> Len(rows[r])]),
     height  |-> Len(rows),
     rows    |-> rows]

\* an index held inside the grid instead of wrapped
WrapClamped(a, n) == IF a < 0 THEN 0 ELSE IF a >= n THEN n - 1 ELSE a

\* x % width of Python for a positive width
Wrap(a, n) == a % n

\* a short row repeated instead of padded
CellWrapped(row, x) ==
    IF row = <<>> THEN <<"0">> ELSE row[(x % Len(row)) + 1]

\* the cell of a row at the wrapped column x
Cell(row, x) == IF x >= Len(row) THEN <<"0">> ELSE row[x + 1]

\* TileMap.get: [exc, value]
TileMapGet(tm, x, y) ==
    IF tm.width = 0 \/ tm.height = 0
    THEN [exc |-> "ZeroDivisionError", value |-> <<>>]
    ELSE [exc |-> "none",
          value |-> Cell(tm.rows[Wrap(y, tm.height) + 1], Wrap(x, tm.width))]

\* the coordinates tried: from a grid width before the origin to past its end
Columns == (-MaxCols - 1)..(MaxCols + 1)

Lines == (-MaxRows - 1)..(MaxRows + 1)

\* a tile map of up to MaxRows rows of up to MaxCols cells each
TileMapInit ==
    /\ \E h \in 0..MaxRows : \E lens \in [1..h -> 0..MaxCols] :
          tile_map = TileMap(<<"a">>, RowsOf(lens))
    /\ tileLast = [op |-> "new", x |-> 0, y |-> 0, exc |-> "none",
                   value |-> <<>>, text |-> <<>>, from_file |-> FALSE]
    /\ ResourcesAbsent
    /\ InputAbsent
    /\ ImageAbsent
    /\ ApiAbsent

\* TileMap.get(x, y), on a tile map that was built or that loaded
TileGet(x, y) ==
    /\ tileLast.op \in {"new", "load"}
    /\ tileLast.exc = "none"
    /\ LET r == TileMapGet(tile_map, x, y)
       IN  tileLast' = [tileLast EXCEPT !.op = "get", !.x = x, !.y = y,
                                        !.exc = r.exc, !.value = r.value]
    /\ UNCHANGED <<tile_map, resourceVars, inputVars, imageVars,
                   apiVars>>

TileMapNext == \E x \in Columns, y \in Lines : TileGet(x, y)

TileMapSpec == TileMapInit /\ [][TileMapNext]_vars

\* the remainder r of a by n with 0 <= r < n
NonNegMod(a, n) ==
    LET k == (IF a < 0 THEN -a ELSE a) + 1
    IN  CHOOSE r \in 0..(n - 1) : \E q \in (-k)..k : a = q * n + r

\* C19: on a tile map with width >= 1 and height >= 1, get(x, y) equals
\* get(x mod width, y mod height) with the non-negative modulus, for
\* negative x and y too.
C19_GetWraps ==
    (tileLast.op = "get" /\ tile_map.width >= 1 /\ tile_map.height >= 1) =>
        /\ tileLast.exc = "none"
        /\ [exc |-> tileLast.exc, value |-> tileLast.value] =
              TileMapGet(tile_map, NonNegMod(tileLast.x, tile_map.width),
                         NonNegMod(tileLast.y, tile_map.height))

C19_Witness ==
    /\ tileLast.op = "get"
    /\ tile_map.width = 4 /\ tile_map.height = 3
    /\ tileLast.x = -1 /\ tileLast.y = 0
    /\ tileLast.value = CellAt(1, 4)

\* C20: get(x, y) returns "0" when the wrapped column index is at or
\* beyond the length of the addressed row, and the cell stored there
\* otherwise.
C20_ShortRowReadsZero ==
    (tileLast.op = "get" /\ tile_map.width >= 1 /\ tile_map.height >= 1) =>
        LET col == NonNegMod(tileLast.x, tile_map.width)
            row == tile_map.rows[NonNegMod(tileLast.y, tile_map.height) + 1]
        IN  /\ tileLast.exc = "none"
            /\ tileLast.value = IF col >= Len(row) THEN <<"0">>
                                ELSE CellAt(NonNegMod(tileLast.y, tile_map.height) + 1,
                                            col + 1)

C20_Witness ==
    /\ tileLast.op = "get"
    /\ tile_map.width = 4 /\ tile_map.height = 3
    /\ Len(tile_map.rows[2]) = 2
    /\ tileLast.x = -2 /\ tileLast.y = -2
    /\ tileLast.value = <<"0">>

-----------------------------------------------------------------------------
(* Tile geometry and animations: load_tile_desc, Animation and Image *)

\* the largest integer tile reference a call passes
MaxTile == 6

\* getint that checks the lower limit only
getint_no_max(option, default, min, max) ==
    LET i == IF option = {} THEN default ELSE CHOOSE v \in option : TRUE
    IN  IF i < min
        THEN [exc |-> "IOError", value |-> 0]
        ELSE [exc |-> "none", value |-> i]

\* getint of load_tile_desc: the option, or default when it is absent,
\* which must lie in min..max. An option of a metadata file is {} when it
\* is absent and {v} when it is given with the integer v
getint(option, default, min, max) ==
    LET i == IF option = {} THEN default ELSE CHOOSE v \in option : TRUE
    IN  IF i < min \/ i > max
        THEN [exc |-> "IOError", value |-> 0]
        ELSE [exc |-> "none", value |-> i]

\* re.match(r'[a-z][0-9a-z]+', key): a match at the start of name, which
\* need not reach its end
MatchAnimationPrefix(name) ==
    /\ Len(name) >= 2
    /\ name[1] \in Letters
    /\ name[2] \in Letters \cup DIGITS

\* load_tile_desc(width, height, filename) on the metadata file meta
load_tile_desc(width, height, meta) ==
    LET keyOf(section) == Strip(Lower(section.name))
        \* the checks made on one animation section
        accepted(section) ==
            /\ MatchAnimationPrefix(keyOf(section))
            /\ section.loop \in {"none", "loop"}
            /\ section.frames # <<>>
            /\ \A i \in 1..Len(section.frames) : section.frames[i] >= 0
        \* Animation(rate, loop, *frames) for every section
        animations ==
            [k \in {keyOf(s) : s \in meta.sections} |->
                LET s == CHOOSE t \in meta.sections : keyOf(t) = k
                IN  [rate |-> s.rate, loop |-> s.loop, frames |-> s.frames]]
        shortest == IF width < height THEN width ELSE height
        margin == getint(meta.tile_margin, 0, 0,
                         (shortest \div 2) - (1 - (shortest % 2)))
        tile_width == getint(meta.tile_width, width, 1,
                             width - margin.value * 2)
        tile_height == getint(meta.tile_height, height, 1,
                              height - margin.value * 2)
        spacing == getint(meta.tile_spacing, 0, 0,
                          width - margin.value * 2 - tile_width.value)
    IN  IF \/ \E s \in meta.sections : ~accepted(s)
           \/ margin.exc # "none"
           \/ tile_width.exc # "none"
           \/ tile_height.exc # "none"
           \/ spacing.exc # "none"
        THEN [exc |-> "IOError", tile_desc |-> <<>>]
        ELSE [exc |-> "none",
              tile_desc |-> [tile_margin  |-> margin.value,
                             tile_width   |-> tile_width.value,
                             tile_height  |-> tile_height.value,
                             tile_spacing |-> spacing.value,
                             animations   |-> animations]]

\* the tile description of an image that has no metadata file: the
\* defaults of Image.__init__
NoTileDesc(width, height) ==
    [tile_margin |-> 0, tile_width |-> width, tile_height |-> height,
     tile_spacing |-> 0, animations |-> <<>>]

\* Image.__init__
Image(width, height, tile_desc) ==
    [width        |-> width,
     height       |-> height,
     tile_width   |-> tile_desc.tile_width,
     tile_height  |-> tile_desc.tile_height,
     tile_margin  |-> tile_desc.tile_margin,
     tile_spacing |-> tile_desc.tile_spacing,
     animations   |-> tile_desc.animations]

\* floor(time * self.rate)
RawIndexFloored(time, rate) == (time[1] * rate) \div time[2]

\* int(time * self.rate), time being the fraction time[1] / time[2]
RawIndex(time, rate) == TruncDiv(time[1] * rate, time[2])

\* Animation.get_frame
get_frame(animation, time) ==
    LET raw == RawIndex(time, animation.rate)
        count == Len(animation.frames)
        index == CASE animation.loop = "none" ->
                        IF raw < count THEN raw ELSE count
                   [] animation.loop = "loop" -> raw % count
    IN  index + 1

\* the number a string of digits denotes
RECURSIVE DigitsValue(_)
DigitsValue(s) ==
    IF s = <<>> THEN 0
    ELSE 10 * DigitsValue(SubSeq(s, 1, Len(s) - 1))
         + (CHOOSE i \in 1..10 : DigitChars[i] = s[Len(s)]) - 1

\* int(animation), for a reference that is the integer n (str is FALSE)
\* or the string s (str is TRUE): ok is FALSE where it raises ValueError
IntOf(reference) ==
    IF ~reference.str THEN [ok |-> TRUE, n |-> reference.n]
    ELSE LET t == Strip(reference.s)
             signed == t # <<>> /\ t[1] \in {"-", "+"}
             body == IF signed THEN Tail(t) ELSE t
             ok == body # <<>> /\ \A i \in 1..Len(body) : body[i] \in DIGITS
         IN  IF ~ok THEN [ok |-> FALSE, n |-> 0]
             ELSE [ok |-> TRUE,
                   n |-> IF t[1] = "-" THEN -DigitsValue(body)
                         ELSE DigitsValue(body)]

Rect(x, y, w, h) == [x |-> x, y |-> y, w |-> w, h |-> h]

\* columns counted in cells, the spacing included
TileColumnsSpaced(img) ==
    (img.width - img.tile_margin * 2) \div (img.tile_width + img.tile_spacing)

\* cols of get_source_rect
TileColumns(img) == (img.width - img.tile_margin * 2) \div img.tile_width

\* get_source_rect for the integer tile number n
TileRect(img, n) ==
    IF n = 0 THEN Rect(0, 0, img.width, img.height)
    ELSE LET f == n - 1
             margin == img.tile_margin
             cell_w == img.tile_width + img.tile_spacing
             cell_h == img.tile_height + img.tile_spacing
             cols == TileColumns(img)
         IN  Rect(margin + (f % cols) * cell_w,
                  margin + (f \div cols) * cell_h,
                  img.tile_width, img.tile_height)

\* Image.get_source_rect(animation, time): the exception it raises, the
\* tile number it resolves the reference to, and the rectangle
get_source_rect(img, reference, time) ==
    LET parsed == IntOf(reference)
        animation == Strip(reference.s)
        name == Lower(animation)
        failed(exc) == [exc |-> exc, tile |-> 0, rect |-> Rect(0, 0, 0, 0)]
    IN  IF parsed.ok
        THEN [exc |-> "none", tile |-> parsed.n,
              rect |-> TileRect(img, parsed.n)]
        ELSE IF ~MatchAnimationPrefix(name) THEN failed("ValueError")
        ELSE IF name \notin DOMAIN img.animations THEN failed("KeyError")
        ELSE LET tile == get_frame(img.animations[name], time)
             IN  [exc |-> "none", tile |-> tile, rect |-> TileRect(img, tile)]

\* the metadata files
MetaFiles ==
    LET walk ==
            { [name |-> <<"W","a","l","k">>, rate |-> 10, loop |-> "loop",
               frames |-> <<5, 6, 7>>],
              [name |-> <<"o","n","c","e">>, rate |-> 10, loop |-> "none",
               frames |-> <<5, 6, 7>>],
              [name |-> <<"b","a","c","k">>, rate |-> -10, loop |-> "none",
               frames |-> <<2, 3>>],
              [name |-> <<"s","t","i","l","l">>, rate |-> 0, loop |-> "loop",
               frames |-> <<4>>] }
        bounce ==
            { [name |-> <<"b","o","u","n","c","e">>, rate |-> 10,
               loop |-> "bounce", frames |-> <<1, 2>>] }
    IN  [sections     : { {}, walk, bounce },
         tile_margin  : { {}, {10}, {50} },
         tile_width   : { {}, {20}, {32} },
         tile_height  : { {}, {20} },
         tile_spacing : { {}, {2}, {60} }]

\* the time positions, as fractions of a second
Times == { <<-1, 20>>, <<0, 1>>, <<3, 10>>, <<7, 20>>, <<1, 1>> }

\* the tile references of the calls
References ==
    {[str |-> FALSE, n |-> n, s |-> <<>>] : n \in (-2)..MaxTile}
    \cup {[str |-> TRUE, n |-> 0, s |-> s] : s \in { <<"5">>, <<" ","-","1">>,
                              <<"w","a","l","k">>, <<" ","W","A","L","K"," ">>,
                              <<"o","n","c","e">>, <<"b","a","c","k">>,
                              <<"s","t","i","l","l">>,
                              <<"i","d","l","e">>, <<"a">>, <<"1","a","b">>,
                              <<"a","b","-","c">> }}

\* the tile reference of no call
NoReference == [str |-> FALSE, n |-> 0, s |-> <<>>]

\* ImageManager.load_resource: an image file of 100x100 or 64x32 pixels,
\* with or without a metadata file. imageLast keeps the size of the file,
\* whether a metadata file was read (from_meta) and what it held
ImageInit ==
    /\ \E size \in { <<100, 100>>, <<64, 32>> } :
        LET afterLoad(from_meta, meta, exc) ==
                [op |-> "load", exc |-> exc, reference |-> NoReference,
                 time |-> <<0, 1>>, tile |-> 0, rect |-> Rect(0, 0, 0, 0),
                 file_width |-> size[1], file_height |-> size[2],
                 from_meta |-> from_meta, meta |-> meta]
            nothing == [sections |-> {}, tile_margin |-> {}, tile_width |-> {},
                        tile_height |-> {}, tile_spacing |-> {}]
        IN  \/ /\ imageObj = Image(size[1], size[2],
                                   NoTileDesc(size[1], size[2]))
               /\ imageLast = afterLoad(FALSE, nothing, "none")
            \/ \E meta \in MetaFiles :
                LET r == load_tile_desc(size[1], size[2], meta)
                IN  /\ imageObj = IF r.exc = "none"
                                  THEN Image(size[1], size[2], r.tile_desc)
                                  ELSE Image(0, 0, NoTileDesc(0, 0))
                    /\ imageLast = afterLoad(TRUE, meta, r.exc)
    /\ ResourcesAbsent
    /\ InputAbsent
    /\ TileMapAbsent
    /\ ApiAbsent

\* a call of Image.get_source_rect on the loaded image
GetSourceRect(reference, time) ==
    /\ imageObj.width > 0
    /\ LET r == get_source_rect(imageObj, reference, time)
       IN  imageLast' = [imageLast EXCEPT !.op = "get_source_rect",
                                          !.exc = r.exc,
                                          !.reference = reference,
                                          !.time = time,
                                          !.tile = r.tile,
                                          !.rect = r.rect]
    /\ UNCHANGED <<imageObj, resourceVars, inputVars, tileVars, apiVars>>

ImageNext ==
    \E reference \in References, time \in Times :
        GetSourceRect(reference, time)

ImageSpec == ImageInit /\ [][ImageNext]_vars

-----------------------------------------------------------------------------
(* The tile-map loader: TileMapManager.load_resource *)

\* row lines of a tile-map file
MaxTextRows == 2

\* one comma-separated field of a row line taken whole, its count ignored
ExpandCellOnce(tile) == <<IF tile = <<>> THEN <<"0">> ELSE tile>>

\* the cells one comma-separated field of a row line appends to its row:
\* "0" for an empty field, and for re.match(r'(.*?)\*(\d+)', tile), the
\* first "*" that a digit follows, the text before it as many times as the
\* digits after it say
ExpandCell(tile) ==
    LET t == IF tile = <<>> THEN <<"0">> ELSE tile
        stars == {i \in 1..(Len(t) - 1) : t[i] = "*" /\ t[i + 1] \in DIGITS}
    IN  IF stars = {} THEN <<t>>
        ELSE LET i == CHOOSE a \in stars : \A b \in stars : a <= b
                 e == CHOOSE a \in (i + 1)..Len(t) :
                        /\ \A j \in (i + 1)..a : t[j] \in DIGITS
                        /\ (a = Len(t) \/ t[a + 1] \notin DIGITS)
                 count == DigitsValue(SubSeq(t, i + 1, e))
             IN  [c \in 1..count |-> SubSeq(t, 1, i - 1)]

\* TileMapManager.load_resource on a file of the given lines, the image
\* its tiles directive names being one get_image finds: [exc, tile_map]
load_tilemap(lines) ==
    LET marks == {"#", ";"}
        visible(c) == c \notin WHITESPACE
        \* ''.join(re.sub(r'[#;].*', '', line.lower()).split())
        clean(line) ==
            LET low == Lower(line)
                cut == {i \in 1..Len(low) : low[i] \in marks}
                kept == IF cut = {} THEN low
                        ELSE SubSeq(low, 1,
                               (CHOOSE i \in cut : \A j \in cut : i <= j) - 1)
            IN  SelectSeq(kept, visible)
        \* line.split(',')
        RECURSIVE split(_)
        split(s) ==
            IF \A i \in 1..Len(s) : s[i] # "," THEN <<s>>
            ELSE LET i == CHOOSE a \in 1..Len(s) :
                            s[a] = "," /\ \A b \in 1..(a - 1) : s[b] # ","
                 IN  <<SubSeq(s, 1, i - 1)>> \o split(SubSeq(s, i + 1, Len(s)))
        \* tile and not re.match(r'\d+|[a-z][a-z0-9]*(\*\d+)?', tile): the
        \* match is at the start of tile and need not reach its end
        refused(tile) == tile # <<>> /\ tile[1] \notin DIGITS \cup Letters
        RECURSIVE row(_)
        row(tiles) ==
            IF tiles = <<>> THEN <<>>
            ELSE ExpandCell(Head(tiles)) \o row(Tail(tiles))
        nonblank(s) == s # <<>>
        content == SelectSeq([i \in 1..Len(lines) |-> clean(lines[i])],
                             nonblank)
        directive == Head(content)
        body == Tail(content)
        failed(exc) == [exc |-> exc, tile_map |-> TileMap(<<>>, <<>>)]
    IN  IF content = <<>>
        \* tileset was never assigned when TileMap(tileset, ...) reads it
        THEN failed("UnboundLocalError")
        ELSE IF \/ Len(directive) < 6
                \/ SubSeq(directive, 1, 6) \notin
                     { <<"t","i","l","e","s",":">>, <<"t","i","l","e","s","=">> }
        THEN failed("IOError")
        ELSE IF \E i \in 1..Len(body) :
                  LET tiles == split(body[i])
                  IN  \E k \in 1..Len(tiles) : refused(tiles[k])
        THEN failed("IOError")
        ELSE [exc |-> "none",
              tile_map |-> TileMap(SubSeq(directive, 7, Len(directive)),
                                   [i \in 1..Len(body) |-> row(split(body[i]))])]

\* a tile-map file: the tiles directive or none, then up to MaxTextRows
\* lines
TileLoadInit ==
    /\ LET heads == { <<>>, << <<"T","i","l","e","s"," ","="," ","a">> >> }
           lines ==
            { <<"1",","," ","2"," ",",","b">>,
              <<"#"," ","c">>,
              <<"A","*","3",",","1">>,
              <<",","b"," ",";"," ","x">>,
              <<"1","a","b","c">>,
              <<"a","-","b">>,
              <<"a","*","b">>,
              <<"*","3">>,
              <<"a","*","0">>,
              <<"b","2","*","2",",",",","7">> }
       IN  \E head \in heads : \E n \in 0..MaxTextRows :
             \E body \in [1..n -> lines] :
               LET r == load_tilemap(head \o body)
               IN  /\ tile_map = r.tile_map
                   /\ tileLast = [op |-> "load", x |-> 0, y |-> 0,
                                  exc |-> r.exc, value |-> <<>>,
                                  text |-> head \o body, from_file |-> TRUE]
    /\ ResourcesAbsent
    /\ InputAbsent
    /\ ImageAbsent
    /\ ApiAbsent

TileLoadSpec == TileLoadInit /\ [][TileMapNext]_vars

-----------------------------------------------------------------------------
(* Properties of the update call and of the axis directions *)

C30_OnlyAxisOneInverted ==
    [][UpdateStep =>
        \A i \in Listed : \A a \in DOMAIN sticks[i].axis :
            LET raw == inputLast'.joy[i].axes[a]
                high == raw > 0 /\ raw * 1000 > 333 * 32767
                low == raw < 0 /\ raw * 1000 < (-333) * 32768
                neg == 2 * a
                pos == 2 * a + 1
                counts(d, other) ==
                    /\ sticks'[i].daxis[d] = sticks[i].daxis[d] + 1
                    /\ sticks'[i].daxis[other] = 0
            IN  IF a = 1
                THEN /\ high => counts(neg, pos)
                     /\ low => counts(pos, neg)
                ELSE /\ high => counts(pos, neg)
                     /\ low => counts(neg, pos)
      ]_vars

\* a joystick whose axis 1 was read at about +0.5 twice: its
\* negative-direction counter is 2
C30_Witness ==
    /\ inputLast.op = "update"
    /\ \E i \in Listed :
          /\ inputLast.joy[i].axes[1] = 16384
          /\ sticks[i].daxis[2] = 2
          /\ sticks[i].daxis[3] = 0

-----------------------------------------------------------------------------
(* Properties of tile geometry and animations *)

\* the last call was get_source_rect with a reference that is an integer
IntegerCall ==
    imageLast.op = "get_source_rect" /\ IntOf(imageLast.reference).ok

\* the last call was get_source_rect with a reference that is no integer
NameCall ==
    imageLast.op = "get_source_rect" /\ ~IntOf(imageLast.reference).ok

\* the animation name of the last call, trimmed and lower-cased
CalledName == Lower(Strip(imageLast.reference.s))

\* the number of whole tiles that fit side by side between the margins
FitColumns ==
    LET room == imageObj.width - 2 * imageObj.tile_margin
    IN  CHOOSE c \in 0..imageObj.width :
            /\ c * imageObj.tile_width <= room
            /\ (c + 1) * imageObj.tile_width > room

\* C21: get_source_rect with an integer reference never fails; 0 yields
\* the rectangle (0, 0, width, height), and any other integer n yields,
\* with n - 1 = row * columns + col and 0 <= col < columns, the
\* rectangle of size (tile_width, tile_height) at
\* (margin + col * (tile_width + spacing),
\*  margin + row * (tile_height + spacing)), whether or not it lies in
\* the image.
C21_IntegerReference ==
    IntegerCall =>
        LET n == IntOf(imageLast.reference).n
            f == n - 1
            bound == MaxTile + 3
        IN  /\ imageLast.exc = "none"
            /\ n = 0 => imageLast.rect =
                            Rect(0, 0, imageObj.width, imageObj.height)
            /\ n # 0 =>
                \E col \in 0..(FitColumns - 1), row \in (-bound)..bound :
                    /\ f = row * FitColumns + col
                    /\ imageLast.rect =
                         Rect(imageObj.tile_margin
                                + col * (imageObj.tile_width
                                         + imageObj.tile_spacing),
                              imageObj.tile_margin
                                + row * (imageObj.tile_height
                                         + imageObj.tile_spacing),
                              imageObj.tile_width, imageObj.tile_height)

\* reference 5 on a 100x100 image with margin 10, 20x20 tiles and no
\* spacing gives the tile at (10, 30)
C21_Witness ==
    /\ IntegerCall
    /\ imageLast.reference = [str |-> FALSE, n |-> 5, s |-> <<>>]
    /\ imageObj.width = 100 /\ imageObj.height = 100
    /\ imageObj.tile_margin = 10 /\ imageObj.tile_spacing = 0
    /\ imageObj.tile_width = 20 /\ imageObj.tile_height = 20
    /\ imageLast.rect = Rect(10, 30, 20, 20)

\* floor(t * rate) for the time position t = time[1] / time[2]
FloorIndex(time, rate) == (time[1] * rate) \div time[2]

\* C22: for a reference that names a defined animation with loop mode
\* Loop, the tile number get_frame returns is
\* frames[floor(t * rate) mod frame_count] + 1.
C22_LoopReadsFrameTable ==
    (/\ NameCall
     /\ CalledName \in DOMAIN imageObj.animations
     /\ imageObj.animations[CalledName].loop = "loop")
    => LET a == imageObj.animations[CalledName]
           index == FloorIndex(imageLast.time, a.rate) % Len(a.frames)
       IN  imageLast.tile = a.frames[index + 1] + 1

\* the last call selected the tile of an animation with loop mode None
ClampedCall ==
    /\ NameCall
    /\ imageLast.exc = "none"
    /\ CalledName \in DOMAIN imageObj.animations
    /\ imageObj.animations[CalledName].loop = "none"

\* the index get_frame selected in the last call: it returns index + 1
SelectedIndex == imageLast.tile - 1

\* t * rate rounded toward zero
TowardZero(time, rate) ==
    LET p == time[1] * rate
        m == IF p < 0 THEN -p ELSE p
        q == CHOOSE k \in 0..m : k * time[2] <= m /\ (k + 1) * time[2] > m
    IN  IF p < 0 THEN -q ELSE q

\* C23 as stated: for loop mode None the selected index is
\* min(floor(t * rate), frame_count).
C23_ClampOfFloor ==
    ClampedCall =>
        LET a == imageObj.animations[CalledName]
            raw == FloorIndex(imageLast.time, a.rate)
            count == Len(a.frames)
        IN  SelectedIndex = IF raw < count THEN raw ELSE count

\* C23, amended: for loop mode None the selected index is
\* min(trunc(t * rate), frame_count), trunc rounding toward zero; so it
\* is exactly frame_count whenever trunc(t * rate) >= frame_count and it
\* never exceeds frame_count.
C23_ClampOfTrunc ==
    ClampedCall =>
        LET a == imageObj.animations[CalledName]
            raw == TowardZero(imageLast.time, a.rate)
            count == Len(a.frames)
        IN  /\ raw < count => SelectedIndex = raw
            /\ raw >= count => SelectedIndex = count
            /\ SelectedIndex <= count

\* 3 frames, rate 10, loop mode None, t = 1.0: index 3
C23_Witness ==
    /\ ClampedCall
    /\ imageObj.animations[CalledName] =
         [rate |-> 10, loop |-> "none", frames |-> <<5, 6, 7>>]
    /\ imageLast.time = <<1, 1>>
    /\ SelectedIndex = 3

\* an ASCII letter followed by one or more alphanumerics, and nothing else
WellFormedAnimationName(name) ==
    /\ Len(name) >= 2
    /\ name[1] \in Letters
    /\ \A i \in 2..Len(name) : name[i] \in Letters \cup DIGITS

\* C24: get_source_rect with a reference that is no integer raises
\* ValueError when the name, trimmed and lower-cased, is not well-formed,
\* KeyError when it is well-formed but no animation of the image, and
\* otherwise returns the rectangle of the tile number that animation's
\* get_frame(time) gives.
C24_NameReference ==
    NameCall =>
        IF ~WellFormedAnimationName(CalledName)
        THEN imageLast.exc = "ValueError"
        ELSE IF CalledName \notin DOMAIN imageObj.animations
        THEN imageLast.exc = "KeyError"
        ELSE /\ imageLast.exc = "none"
             /\ imageLast.tile =
                  get_frame(imageObj.animations[CalledName], imageLast.time)
             /\ imageLast.rect = TileRect(imageObj, imageLast.tile)

\* the value getint reads for an option: the one given, else the default
Effective(option, default) ==
    IF option = {} THEN default ELSE CHOOSE v \in option : TRUE

\* the image was read together with a metadata file, which was accepted
LoadedFromMeta == imageLast.from_meta /\ imageObj.width > 0

\* the metadata file holds a value outside the range the file's image
\* gives it: the margin outside 0 .. the largest margin that leaves a
\* pixel, or, the values before it being in range, a tile size or a
\* spacing outside the room the margin and the tile width leave
OutOfRange ==
    LET w == imageLast.file_width
        h == imageLast.file_height
        shortest == IF w < h THEN w ELSE h
        largest == IF shortest % 2 = 0 THEN (shortest \div 2) - 1
                   ELSE shortest \div 2
        m == Effective(imageLast.meta.tile_margin, 0)
        tw == Effective(imageLast.meta.tile_width, w)
        th == Effective(imageLast.meta.tile_height, h)
        sp == Effective(imageLast.meta.tile_spacing, 0)
    IN  \/ m < 0 \/ m > largest
        \/ tw < 1 \/ tw > w - 2 * m
        \/ th < 1 \/ th > h - 2 * m
        \/ sp < 0 \/ sp > w - 2 * m - tw

\* C31: a tile geometry that loads from a metadata file has 0 <= margin,
\* 1 <= tile_width <= width - 2*margin, 1 <= tile_height <= height -
\* 2*margin and 0 <= spacing <= width - 2*margin - tile_width, so that it
\* has at least one column, every animation has a frame to divide by and
\* no get_source_rect call ends in a division by zero; a metadata file with
\* a value outside its range is refused with IOError and gives no image.
C31_GeometryInRange ==
    /\ LoadedFromMeta =>
        /\ imageObj.width = imageLast.file_width
        /\ imageObj.height = imageLast.file_height
        /\ 0 <= imageObj.tile_margin
        /\ 1 <= imageObj.tile_width
        /\ imageObj.tile_width <= imageObj.width - 2 * imageObj.tile_margin
        /\ 1 <= imageObj.tile_height
        /\ imageObj.tile_height <= imageObj.height - 2 * imageObj.tile_margin
        /\ 0 <= imageObj.tile_spacing
        /\ imageObj.tile_spacing <=
             imageObj.width - 2 * imageObj.tile_margin - imageObj.tile_width
        /\ \E c \in 1..imageObj.width :
             /\ c * imageObj.tile_width
                  <= imageObj.width - 2 * imageObj.tile_margin
             /\ c = TileColumns(imageObj)
        /\ \A a \in DOMAIN imageObj.animations :
             Len(imageObj.animations[a].frames) >= 1
        /\ imageLast.exc # "ZeroDivisionError"
    /\ (imageLast.from_meta /\ OutOfRange) =>
        /\ imageObj.width = 0
        /\ imageLast.op = "load"
        /\ imageLast.exc = "IOError"

\* a metadata file that gives margin, tile size and spacing was accepted
\* for a 100x100 image, and a tile of its second row was asked for
C31_Witness ==
    /\ LoadedFromMeta
    /\ imageLast.file_width = 100
    /\ imageLast.meta.tile_margin = {10}
    /\ imageLast.meta.tile_width = {20}
    /\ imageLast.meta.tile_height = {20}
    /\ imageLast.meta.tile_spacing = {2}
    /\ imageLast.op = "get_source_rect"
    /\ imageLast.exc = "none"
    /\ imageLast.tile = 5
    /\ imageLast.rect = Rect(10, 32, 20, 20)

\* C32: a metadata file without tile_width and tile_height (and, so that
\* nothing else can refuse it, without tile_spacing and with animation
\* sections that are accepted) loads, with the whole image as its one
\* tile, whatever valid tile_margin it gives.
C32_OmittedTileSizeIsWholeImage ==
    LET w == imageLast.file_width
        h == imageLast.file_height
        shortest == IF w < h THEN w ELSE h
        largest == IF shortest % 2 = 0 THEN (shortest \div 2) - 1
                   ELSE shortest \div 2
        m == Effective(imageLast.meta.tile_margin, 0)
    IN  ( /\ imageLast.from_meta
          /\ imageLast.meta.tile_width = {}
          /\ imageLast.meta.tile_height = {}
          /\ imageLast.meta.tile_spacing = {}
          /\ \A s \in imageLast.meta.sections : s.loop \in {"none", "loop"}
          /\ 0 <= m /\ m <= largest )
        => /\ imageObj.width = w
           /\ imageObj.height = h
           /\ imageObj.tile_width = w
           /\ imageObj.tile_height = h
           /\ imageObj.tile_margin = m

-----------------------------------------------------------------------------
(* Properties of the tile-map loader *)

\* what a line of a tile-map file says: its characters before a comment
\* mark, white space left out, in lower case
RECURSIVE Visible(_)
Visible(line) ==
    IF line = <<>> \/ Head(line) \in {"#", ";"} THEN <<>>
    ELSE IF Head(line) \in WHITESPACE THEN Visible(Tail(line))
    ELSE <<LowerChar(Head(line))>> \o Visible(Tail(line))

\* the lines of the file that say something, in order
Said(text) ==
    LET said(line) == line # <<>>
    IN  SelectSeq([i \in 1..Len(text) |-> Visible(text[i])], said)

\* the file starts with a tiles directive
HasDirective(text) ==
    /\ Said(text) # <<>>
    /\ Len(Said(text)[1]) >= 6
    /\ \E sep \in {":", "="} :
         SubSeq(Said(text)[1], 1, 6) = <<"t","i","l","e","s", sep>>

\* the row lines: what is said after the tiles directive
RowLines(text) == Tail(Said(text))

\* the fields of a row line: the stretches between its commas
Fields(s) ==
    LET commas == {i \in 1..Len(s) : s[i] = ","}
        n == Cardinality(commas)
        pos(k) == IF k = 0 THEN 0
                  ELSE IF k = n + 1 THEN Len(s) + 1
                  ELSE CHOOSE i \in commas :
                         Cardinality({j \in commas : j < i}) = k - 1
    IN  [k \in 1..(n + 1) |-> SubSeq(s, pos(k - 1) + 1, pos(k) - 1)]

AllDigits(s) == s # <<>> /\ \A i \in 1..Len(s) : s[i] \in DIGITS

Identifier(s) ==
    /\ s # <<>>
    /\ s[1] \in Letters
    /\ \A i \in 2..Len(s) : s[i] \in Letters \cup DIGITS

\* the field is identifier*digits, the star at position i
Repeated(f, i) ==
    /\ i \in 2..(Len(f) - 1)
    /\ f[i] = "*"
    /\ Identifier(SubSeq(f, 1, i - 1))
    /\ AllDigits(SubSeq(f, i + 1, Len(f)))

\* a cell is empty, all digits, or an identifier optionally followed by
\* *digits
WellFormedCell(f) ==
    \/ f = <<>>
    \/ AllDigits(f)
    \/ Identifier(f)
    \/ \E i \in 1..Len(f) : Repeated(f, i)

\* C33: a tile-map file whose tiles directive is followed by a row with a
\* cell that is neither empty, nor all digits, nor identifier or
\* identifier*digits is refused with IOError and gives no tile map; so are
\* "1abc", "a-b" and "a*b".
C33_MalformedCellRefused ==
    ( /\ tileLast.from_file
      /\ HasDirective(tileLast.text)
      /\ \E r \in 1..Len(RowLines(tileLast.text)) :
           LET fs == Fields(RowLines(tileLast.text)[r])
           IN  \E k \in 1..Len(fs) : ~WellFormedCell(fs[k]) )
    => /\ tileLast.op = "load"
       /\ tileLast.exc = "IOError"
       /\ tile_map = TileMap(<<>>, <<>>)

\* the cells a well-formed field stands for: count for identifier*count,
\* one otherwise
Copies(f) ==
    IF \E i \in 1..Len(f) : Repeated(f, i)
    THEN LET i == CHOOSE a \in 1..Len(f) : Repeated(f, a)
         IN  DigitsValue(SubSeq(f, i + 1, Len(f)))
    ELSE 1

\* the cells the first k fields stand for
RECURSIVE CopiesOf(_, _)
CopiesOf(fs, k) ==
    IF k = 0 THEN 0 ELSE CopiesOf(fs, k - 1) + Copies(fs[k])

C39_GetNeverFails ==
    (tileLast.from_file /\ tileLast.op = "get") =>
        /\ tileLast.exc = "none"
        /\ tileLast.value # <<>>

-----------------------------------------------------------------------------
(* The library object: MicroPyApi.init, ensure_init, quit, running, the   *)
(* event loop of poll, and draw_tilemap                                    *)

\* the notifications one update call finds pending
MaxEvents == 2

\* MicroPyApi.__init__; _running, which init creates, is FALSE until then
\* and is read only after ensure_init. calls lists, in order, the calls
\* the public operation under way has made to SDL, to the input handler
\* and to the resource managers
NewApi ==
    [initialised |-> FALSE, window |-> FALSE, renderer |-> FALSE,
     backbuffer |-> FALSE, resources |-> FALSE, input |-> FALSE,
     running |-> FALSE, width |-> 0, height |-> 0, calls |-> <<>>]

\* a quit that shuts the subsystems down before it releases anything
quit_shutdown_first(a) ==
    IF ~a.initialised THEN a
    ELSE [a EXCEPT !.input = FALSE, !.resources = FALSE,
                   !.backbuffer = FALSE, !.renderer = FALSE,
                   !.window = FALSE, !.initialised = FALSE,
                   !.calls = @ \o <<"Mix_CloseAudio", "Mix_Quit", "TTF_Quit",
                                    "IMG_Quit", "SDL_Quit">>
                               \o (IF a.input THEN <<"input.dispose">>
                                   ELSE <<>>)
                               \o (IF a.resources
                                   THEN <<"fonts.dispose", "images.dispose",
                                          "sounds.dispose", "music.dispose",
                                          "tilemaps.dispose">>
                                   ELSE <<>>)
                               \o (IF a.backbuffer
                                   THEN <<"SDL_DestroyTexture">> ELSE <<>>)
                               \o (IF a.renderer
                                   THEN <<"SDL_DestroyRenderer">> ELSE <<>>)
                               \o (IF a.window
                                   THEN <<"SDL_DestroyWindow">> ELSE <<>>)]

\* MicroPyApi.quit; self.resources.dispose() is ResourceManager.dispose,
\* which disposes the five managers in turn
quit(a) ==
    IF ~a.initialised THEN a
    ELSE [a EXCEPT !.input = FALSE, !.resources = FALSE,
                   !.backbuffer = FALSE, !.renderer = FALSE,
                   !.window = FALSE, !.initialised = FALSE,
                   !.calls = @ \o (IF a.input THEN <<"input.dispose">>
                                   ELSE <<>>)
                               \o (IF a.resources
                                   THEN <<"fonts.dispose", "images.dispose",
                                          "sounds.dispose", "music.dispose",
                                          "tilemaps.dispose">>
                                   ELSE <<>>)
                               \o (IF a.backbuffer
                                   THEN <<"SDL_DestroyTexture">> ELSE <<>>)
                               \o (IF a.renderer
                                   THEN <<"SDL_DestroyRenderer">> ELSE <<>>)
                               \o (IF a.window
                                   THEN <<"SDL_DestroyWindow">> ELSE <<>>)
                               \o <<"Mix_CloseAudio", "Mix_Quit", "TTF_Quit",
                                    "IMG_Quit", "SDL_Quit">>]

\* MicroPyApi.init(width, height) in an environment where SDL fails to
\* create failing ("window", "renderer", "backbuffer") or nothing ("none").
\* The failure branches call self.dispose(), a method MicroPyApi does not
\* have, so they raise AttributeError before their raise RuntimeError
init(a, width, height, failing) ==
    IF width <= 0 \/ height <= 0 THEN [exc |-> "ValueError", api |-> a]
    ELSE LET sized == [quit(a) EXCEPT
                         !.width = width, !.height = height,
                         !.calls = @ \o <<"SDL_Init", "IMG_Init", "TTF_Init",
                                          "Mix_Init", "SDL_CreateWindow">>]
         IN  CASE failing = "window" ->
                    [exc |-> "AttributeError",
                     api |-> [sized EXCEPT !.window = FALSE]]
               [] failing = "renderer" ->
                    [exc |-> "AttributeError",
                     api |-> [sized EXCEPT
                                !.window = TRUE,
                                !.renderer = FALSE,
                                !.calls = @ \o <<"create_renderer">>]]
               [] failing = "backbuffer" ->
                    [exc |-> "AttributeError",
                     api |-> [sized EXCEPT
                                !.window = TRUE,
                                !.renderer = TRUE,
                                !.backbuffer = FALSE,
                                !.calls = @ \o <<"create_renderer",
                                                 "SDL_CreateTexture">>]]
               [] OTHER ->
                    [exc |-> "none",
                     api |-> [sized EXCEPT
                                !.window = TRUE,
                                !.renderer = TRUE,
                                !.backbuffer = TRUE,
                                !.resources = TRUE,
                                !.input = TRUE,
                                !.running = TRUE,
                                !.initialised = TRUE,
                                !.calls = @ \o <<"create_renderer",
                                                 "SDL_CreateTexture",
                                                 "ResourceManager",
                                                 "InputHandler",
                                                 "Mix_OpenAudio">>]]

\* an ensure_init that never initialises
ensure_init_skipped(a, failing) == [exc |-> "none", api |-> a]

\* MicroPyApi.ensure_init
ensure_init(a, failing) ==
    IF a.initialised THEN [exc |-> "none", api |-> a]
    ELSE init(a, ScreenSize[1], ScreenSize[2], failing)

\* a poll that Escape does not stop
StillRunningAfterEscape(running, queue) ==
    IF \E i \in 1..Len(queue) : queue[i] = "QUIT" THEN FALSE ELSE running

\* _running after the loop of MicroPyApi.poll over the pending
\* notifications queue
StillRunning(running, queue) ==
    IF \E i \in 1..Len(queue) : queue[i] \in {"QUIT", "KEYDOWN ESCAPE"}
    THEN FALSE
    ELSE running

\* MicroPyApi.draw_tilemap up to the size it draws the tiles at, for a
\* tile_width and a tile_height that are {} when omitted and {v} when
\* given. abs() is applied to what check_param returns, which is None for
\* an omitted size, so the branches that derive an omitted size from the
\* tileset (lines 1295-1300) are never reached
draw_tilemap(tile_width, tile_height, tileset) ==
    IF tile_width = {} \/ tile_height = {}
    THEN [exc |-> "TypeError", tile_width |-> 0, tile_height |-> 0]
    ELSE LET w == CHOOSE v \in tile_width : TRUE
             h == CHOOSE v \in tile_height : TRUE
         IN  IF w = 0 \/ h = 0
             THEN [exc |-> "ZeroDivisionError",
                   tile_width |-> 0, tile_height |-> 0]
             ELSE [exc |-> "none",
                   tile_width |-> IF w < 0 THEN -w ELSE w,
                   tile_height |-> IF h < 0 THEN -h ELSE h]

\* what SDL fails to create when init runs
Failures == {"none", "window", "renderer", "backbuffer"}

\* the library object before any call. apiLast is the last call of a
\* public operation: its outcome, whether it found the library
\* initialised (was) and ran init (ran), what SDL failed to create in it,
\* the sizes given to draw_tilemap and the size it drew the tiles at, and
\* the history the properties speak of: halted, a quit or Escape
\* notification was processed and neither running(True) nor init was
\* called since; stopped, such a notification was processed or
\* running(False) was called; quitted, quit has shut the library down
ApiInit ==
    /\ api = NewApi
    /\ apiLast = [op |-> "new", arg |-> "none", exc |-> "none",
                  result |-> FALSE, was |-> FALSE, ran |-> FALSE,
                  failed |-> "none", given_width |-> {}, given_height |-> {},
                  tile_width |-> 0, tile_height |-> 0,
                  halted |-> FALSE, stopped |-> FALSE, quitted |-> FALSE]
    /\ ResourcesAbsent
    /\ InputAbsent
    /\ TileMapAbsent
    /\ ImageAbsent

\* a call init(width, height)
ApiInitCall(width, height, failing) ==
    LET r == init([api EXCEPT !.calls = <<>>], width, height, failing)
    IN  /\ api' = r.api
        /\ apiLast' = [apiLast EXCEPT
                         !.op = "init", !.arg = "none", !.exc = r.exc,
                         !.result = FALSE, !.was = api.initialised,
                         !.ran = TRUE,
                         !.failed = IF r.exc = "ValueError"
                                    THEN "none" ELSE failing,
                         !.given_width = {}, !.given_height = {},
                         !.tile_width = 0, !.tile_height = 0,
                         !.halted = FALSE,
                         !.quitted = @ \/ api.initialised]
        /\ UNCHANGED <<resourceVars, inputVars, tileVars, imageVars>>

\* a call quit()
ApiQuit ==
    /\ api' = quit([api EXCEPT !.calls = <<>>])
    /\ apiLast' = [apiLast EXCEPT
                     !.op = "quit", !.arg = "none", !.exc = "none",
                     !.result = FALSE, !.was = api.initialised,
                     !.ran = FALSE, !.failed = "none",
                     !.given_width = {}, !.given_height = {},
                     !.tile_width = 0, !.tile_height = 0,
                     !.quitted = @ \/ api.initialised]
    /\ UNCHANGED <<resourceVars, inputVars, tileVars, imageVars>>

\* what every public operation other than init and quit begins with:
\* ensure_init, whose exception ends the call
Ensured(op, arg, failing) ==
    LET e == ensure_init([api EXCEPT !.calls = <<>>], failing)
    IN  [api |-> e.api,
         last |-> [apiLast EXCEPT
                     !.op = op, !.arg = arg, !.exc = e.exc,
                     !.result = FALSE, !.was = api.initialised,
                     !.ran = ~api.initialised,
                     !.failed = IF api.initialised
                                THEN "none" ELSE failing,
                     !.given_width = {}, !.given_height = {},
                     !.tile_width = 0, !.tile_height = 0,
                     !.halted = @ /\ api.initialised]]

\* a call running(running), the argument being "none", "True" or "False"
ApiRunning(arg, failing) ==
    LET e == Ensured("running", arg, failing)
        now == CASE arg = "True" -> TRUE
                 [] arg = "False" -> FALSE
                 [] OTHER -> e.api.running
    IN  /\ api' = IF e.last.exc = "none"
                  THEN [e.api EXCEPT !.running = now] ELSE e.api
        /\ apiLast' = IF e.last.exc # "none" THEN e.last
                      ELSE [e.last EXCEPT
                              !.result = now,
                              !.halted = @ /\ arg # "True",
                              !.stopped = @ \/ arg = "False"]
        /\ UNCHANGED <<resourceVars, inputVars, tileVars, imageVars>>

\* a call update() that finds the notifications queue pending
ApiUpdate(queue, failing) ==
    LET e == Ensured("update", "none", failing)
        now == StillRunning(e.api.running, queue)
        seen == \E i \in 1..Len(queue) : queue[i] \in {"QUIT", "KEYDOWN ESCAPE"}
    IN  /\ api' = IF e.last.exc = "none"
                  THEN [e.api EXCEPT !.running = now] ELSE e.api
        /\ apiLast' = IF e.last.exc # "none" THEN e.last
                      ELSE [e.last EXCEPT
                              !.halted = @ \/ seen,
                              !.stopped = @ \/ seen]
        /\ UNCHANGED <<resourceVars, inputVars, tileVars, imageVars>>

\* a call draw_tilemap(name, tile_width=..., tile_height=...) of a tile
\* map whose tileset has 16x8 tiles
ApiDrawTilemap(tile_width, tile_height, failing) ==
    LET e == Ensured("draw_tilemap", "none", failing)
        r == draw_tilemap(tile_width, tile_height,
                          [tile_width |-> 16, tile_height |-> 8])
    IN  /\ api' = e.api
        /\ apiLast' = IF e.last.exc # "none" THEN e.last
                      ELSE [e.last EXCEPT
                              !.exc = r.exc,
                              !.given_width = tile_width,
                              !.given_height = tile_height,
                              !.tile_width = r.tile_width,
                              !.tile_height = r.tile_height]
        /\ UNCHANGED <<resourceVars, inputVars, tileVars, imageVars>>

ApiNext ==
    \/ \E width \in {0, ScreenSize[1], 640}, failing \in Failures :
        ApiInitCall(width, ScreenSize[2], failing)
    \/ ApiQuit
    \/ \E arg \in {"none", "True", "False"}, failing \in Failures :
        ApiRunning(arg, failing)
    \/ \E n \in 0..MaxEvents, failing \in Failures :
        \E queue \in [1..n -> {"QUIT", "KEYDOWN ESCAPE", "KEYDOWN A"}] :
            ApiUpdate(queue, failing)
    \/ \E tile_width \in { {}, {0}, {32} }, tile_height \in { {}, {-24} },
          failing \in Failures :
        ApiDrawTilemap(tile_width, tile_height, failing)

ApiSpec == ApiInit /\ [][ApiNext]_vars

-----------------------------------------------------------------------------
(* Properties of the library object *)

\* C25: a public operation other than quit that returns normally leaves
\* the library initialised, and one other than init that was called while
\* the library was not initialised, after a quit or before any init, has
\* run init with its default options first.
C25_EnsureInit ==
    (apiLast.op \notin {"new", "quit"} /\ apiLast.exc = "none") =>
        /\ api.initialised
        /\ (apiLast.op # "init" /\ ~apiLast.was) =>
              /\ apiLast.ran
              /\ api.width = ScreenSize[1]
              /\ api.height = ScreenSize[2]

\* running() called after a quit that followed init(640, 180)
C25_Witness ==
    /\ apiLast.op = "running"
    /\ apiLast.exc = "none"
    /\ apiLast.quitted
    /\ ~apiLast.was
    /\ api.initialised

\* C26: when SDL fails to create the window, the renderer or the
\* backbuffer during init, init raises RuntimeError and the library is
\* left not initialised.
C26_FailedInitRaisesRuntimeError ==
    (apiLast.op = "init" /\ apiLast.failed # "none") =>
        /\ apiLast.exc = "RuntimeError"
        /\ ~api.initialised

\* C27: running() returns False once a quit or Escape notification has
\* been processed by update and neither running(True) nor init has been
\* called since; it returns True when no such notification has been
\* processed and running(False) has not been called.
C27_RunningAfterStop ==
    (apiLast.op = "running" /\ apiLast.exc = "none") =>
        /\ apiLast.halted => ~apiLast.result
        /\ ~apiLast.stopped => apiLast.result

\* running() returns False after an update processed a quit or Escape
C27_Witness ==
    /\ apiLast.op = "running"
    /\ apiLast.arg = "none"
    /\ apiLast.exc = "none"
    /\ apiLast.halted
    /\ ~apiLast.result
    /\ api.initialised

\* C28: draw_tilemap with neither tile_width nor tile_height completes
\* without error and draws at the tileset's tile size (16x8); with only
\* one of them given it draws at that size and derives the other from
\* the tileset's aspect ratio.
C28_DrawTilemapDefaultSizes ==
    (apiLast.op = "draw_tilemap" /\ apiLast.exc # "AttributeError") =>
        LET abs(set) == LET v == CHOOSE x \in set : TRUE
                        IN  IF v < 0 THEN -v ELSE v
            w == apiLast.given_width
            h == apiLast.given_height
        IN  /\ (w = {} /\ h = {}) =>
                /\ apiLast.exc = "none"
                /\ apiLast.tile_width = 16 /\ apiLast.tile_height = 8
            /\ (w = {} /\ h # {}) =>
                /\ apiLast.exc = "none"
                /\ apiLast.tile_height = abs(h)
                /\ apiLast.tile_width = (16 * abs(h)) \div 8
            /\ (w # {} /\ w # {0} /\ h = {}) =>
                /\ apiLast.exc = "none"
                /\ apiLast.tile_width = abs(w)
                /\ apiLast.tile_height = (8 * abs(w)) \div 16

\* how often the operation under way has made the call
Count(call) ==
    Cardinality({i \in 1..Len(api.calls) : api.calls[i] = call})

\* where in the operation under way the call was made
Index(call) == CHOOSE i \in 1..Len(api.calls) : api.calls[i] = call

\* the calls that close the joysticks and release the cached resources
Releases ==
    {"input.dispose", "fonts.dispose", "images.dispose", "sounds.dispose",
     "music.dispose", "tilemaps.dispose"}

\* the calls that destroy the backbuffer, the renderer and the window
Destroys == {"SDL_DestroyTexture", "SDL_DestroyRenderer", "SDL_DestroyWindow"}

\* the calls that shut the audio, font, image and SDL subsystems down
Shutdowns == {"Mix_CloseAudio", "Mix_Quit", "TTF_Quit", "IMG_Quit", "SDL_Quit"}

\* the last operation ran quit on an initialised library: it was quit, or
\* an init whose arguments were accepted
QuitRan ==
    /\ apiLast.was
    /\ \/ apiLast.op = "quit"
       \/ apiLast.op = "init" /\ apiLast.exc # "ValueError"

\* C35: after quit the library is not initialised and holds no input
\* handler, resource manager, backbuffer, renderer or window; a quit of an
\* initialised library disposes the input handler and each resource cache
\* exactly once; a quit of a library that is not initialised makes no
\* call at all; and an init of an initialised library makes every call of
\* quit, once, before the first call that creates anything.
C35_QuitReleasesOnce ==
    /\ apiLast.op = "quit" =>
        /\ ~api.initialised
        /\ ~api.input /\ ~api.resources
        /\ ~api.backbuffer /\ ~api.renderer /\ ~api.window
    /\ (apiLast.op = "quit" /\ apiLast.was) =>
        \A call \in Releases \cup Destroys \cup Shutdowns : Count(call) = 1
    /\ (apiLast.op = "quit" /\ ~apiLast.was) => api.calls = <<>>
    /\ (apiLast.op = "init" /\ apiLast.was /\ apiLast.exc # "ValueError") =>
        /\ Count("SDL_Init") = 1
        /\ \A call \in Releases \cup Destroys \cup Shutdowns :
             Count(call) = 1 /\ Index(call) < Index("SDL_Init")

\* C40: when quit runs on an initialised library, by itself or at the
\* start of init, it closes the joysticks and releases every resource
\* cache, then destroys backbuffer, renderer and window, then shuts the
\* audio, font, image and SDL subsystems down, each of these once; and in
\* no operation is anything released or destroyed after a shutdown call.
C40_QuitOrder ==
    /\ QuitRan =>
        /\ \A call \in Releases \cup Destroys \cup Shutdowns : Count(call) = 1
        /\ \A r \in Releases : \A d \in Destroys : Index(r) < Index(d)
        /\ \A d \in Destroys : \A q \in Shutdowns : Index(d) < Index(q)
    /\ \A i \in 1..Len(api.calls) : \A j \in (i + 1)..Len(api.calls) :
         api.calls[i] \in Shutdowns =>
            api.calls[j] \notin Releases \cup Destroys

\* init was called on an initialised library and went on to create the
\* window again after its quit
C40_Witness ==
    /\ QuitRan
    /\ apiLast.op = "init"
    /\ apiLast.exc = "none"
    /\ api.initialised
    /\ Count("SDL_Quit") = 1
    /\ Count("SDL_CreateWindow") = 1
    /\ Index("SDL_Quit") < Index("SDL_CreateWindow")

=============================================================================
